---- MODULE Spec2Model ----
(***************************************************************************)
(* Model of package auth of bbranch: the OAuth 2.0 Authorization Code +    *)
(* PKCE login flow (Login) and the token cache / refresh coordinator       *)
(* (GetToken), with the token store (saveToken, loadToken) and the token   *)
(* endpoint (doTokenRequest) they share.                                   *)
(*                                                                         *)
(* Spec       : NCallers goroutines each calling GetToken once.            *)
(* SpecLogin  : one Login invocation with its callback server goroutine    *)
(*              and the handler goroutines of the requests it receives.    *)
(* SpecFair, SpecLoginFair : the same under weak fairness of the steps of   *)
(*              the program, the token endpoint and the file system.       *)
(* SpecCmd    : one process running either Login or GetToken callers.      *)
(* SpecSessions : up to MaxSessions successive Login invocations.          *)
(* SpecDecoded : the GetToken calls of Spec, with every response of the     *)
(*              token endpoint decoded by doTokenRequest.                  *)
(* SpecConcurrent : one GetToken call made while Login exchanges the code. *)
(* SpecTokenRequest : one doTokenRequest call on a response of the token   *)
(*              endpoint.                                                  *)
(* SpecStore  : saveToken and loadToken calls on the token file.           *)
(* SpecPKCE   : the code verifier and code challenge Login generates.      *)
(* SpecClient : one call of a method of bitbucket.Client.                  *)
(* SpecCreator : one CreateBranches or CreatePRs call and its goroutines.  *)
(* SpecRun    : one run of the create or the pr command.                   *)
(***************************************************************************)
EXTENDS Integers, Sequences, FiniteSets, TLC

\* ------------------------------------------------------------------------
\* Bounds of the model
\* ------------------------------------------------------------------------
NCallers == 2

Now0 == 1000

MaxElapsed == 2

MaxRequests == 3

MaxSessions == 2

MaxSaves == 2

MaxServerPages == 51

MaxRepos == 3

PatternLen == 3

\* ------------------------------------------------------------------------
\* Program constants
\* ------------------------------------------------------------------------
\* GetToken: token.ExpiresAt.Add(-30 * time.Second)
RefreshBuffer == 30

\* Login: verifierBytes := make([]byte, 64)
VerifierBytes == 64

\* sha256.Sum256 returns [32]byte
DigestBytes == 32

Callers == 1 .. NCallers

Unlocked == 0

\* expires_in values the token endpoint may report (seconds)
ExpiresInValues == {0, 30, 31, 3600}

\* ExpiresAt of the token found in the store at start, relative to Now0:
\* expired 5 minutes ago, exactly at the buffer, one second past it,
\* 10 minutes in the future.
InitExpiresAt == {Now0 - 300, Now0 + RefreshBuffer, Now0 + RefreshBuffer + 1, Now0 + 600}

\* type Token struct
Token(a, r, e) == [AccessToken |-> a, RefreshToken |-> r, ExpiresAt |-> e]

NoToken == Token(<<"", 0>>, <<"", 0>>, 0)

\* Content of ~/.bbranch/token.json
FileAbsent == [state |-> "absent", tok |-> NoToken]

\* a file opened with O_TRUNC whose JSON has not been written completely
FilePartial == [state |-> "partial", tok |-> NoToken]

\* valid JSON that has none of the token fields, such as {}
FileNoFields == [state |-> "nofields", tok |-> NoToken]

FileOf(t) == [state |-> "token", tok |-> t]

\* The token issued by the k-th successful token-endpoint response
IssuedToken(k, t, ein) == Token(<<"access", k>>, <<"refresh", k>>, t + ein)

InitToken(e) == Token(<<"access", 0>>, <<"refresh", 0>>, e)

\* Values GetToken returns
NoResult == [ok |-> FALSE, access |-> <<"", 0>>, err |-> "", cause |-> ""]

Ok(a) == [ok |-> TRUE, access |-> a, err |-> "", cause |-> ""]

Err(e, c) == [ok |-> FALSE, access |-> <<"", 0>>, err |-> e, cause |-> c]

VARIABLES
    now,        \* time.Now(), seconds
    file,       \* content of the token file
    tokenMu,    \* holder of tokenMu, Unlocked when free
    pc,         \* position of each GetToken call
    tok,        \* GetToken's local variable token
    loaded,     \* what loadToken returned to the call
    checkedAt,  \* time.Now() of the call's expiry check, -1 before it
    sentReq,    \* refresh requests the call has sent
    writes,     \* number of times the call opened the token file for writing
    result,     \* what the call returns
    inflight,   \* token-endpoint requests sent and not yet answered
    issued,     \* number of tokens the token endpoint has issued
    lpc,        \* position of Login
    spc,        \* position of the goroutine running server.ListenAndServe
    port,       \* port 9876: "free", "other" (held by another process), "bound"
    inShutdown, \* server.Shutdown has been called
    codeCh,     \* codeCh, capacity 1
    errCh,      \* errCh, capacity 1
    handlers,   \* the handler goroutine of each request to /callback, in order of arrival
    browser,    \* what openBrowser did, and the listener's position when it was called
    authCode,   \* Login's local variable authCode
    lerr,       \* the error Login is about to return
    ltok,       \* Login's local variable token
    lsent,      \* token-endpoint requests Login has sent
    lresult,    \* what Login returned, "" before it returns
    session,    \* number of Login invocations started
    codeVerifier, \* Login's local variable codeVerifier
    authURL,    \* Login's local variable authURL
    serr,       \* the error server.ListenAndServe returned, "" if none
    lfile0,     \* content of the token file when Login was invoked
    resp,       \* doTokenRequest: what http.DefaultClient.Do returned
    tres,       \* doTokenRequest: what it returned
    disk,       \* ~/.bbranch and ~/.bbranch/token.json: existence, permissions, bytes
    saved,      \* the token given to the last saveToken
    sres,       \* what the last saveToken returned
    lres,       \* what loadToken returned since the last saveToken
    nsaves,     \* number of saveToken calls made
    npages,     \* bitbucket: number of pages the workspace listing has
    cop,        \* Client: the method called, "" before the call
    cpc,        \* Client: position in doRequest
    nextURL,    \* ListRepositories: nextURL, the number of the page it names, 0 for ""
    ci,         \* ListRepositories: loop counter i
    allRepos,   \* ListRepositories: allRepos
    ptok,       \* doRequest: token, the value tokenProvider returned
    nprov,      \* number of tokenProvider calls that returned a token
    nreq,       \* number of HTTP requests sent
    lastReq,    \* the last HTTP request sent
    cres,       \* what the Client method returned
    winput,     \* CreateBranches / CreatePRs: which of the two, repos, destination
    wpc,        \* position of the function in its body
    wk,         \* index of the next element of repos the for loop visits
    wg,         \* wg, the WaitGroup counter
    wmu,        \* mu: the goroutine holding it, 0 if none
    results,    \* results, the shared slice
    gpc,        \* position of each per-repo goroutine
    gres,       \* each goroutine's Result
    glocal,     \* the slice header each goroutine read in append(results, ...)
    greqs,      \* the API requests each goroutine has made
    wret,       \* the slice the function returned
    command,    \* cmd: the command run, "create" or "pr"
    flags,      \* the values of its flags
    cfg,        \* the configuration, as read and then as config.Load returns it
    rpc,        \* position of runCreate / runPR
    targetRepos, \* repos, the result of resolveTargetRepos
    apiCalls,   \* the Bitbucket API requests the command has made
    output,     \* the plan or the results printed
    runErr,     \* the error the command returned, "" for nil
    verifierBytes, \* Login: verifierBytes once rand.Read has filled it
    ppc,        \* position in the PKCE part of Login
    pkceVerifier, \* codeVerifier, a sequence of characters
    codeChallenge, \* codeChallenge, a sequence of characters
    pkceURL,    \* the PKCE parameters of authURL
    pkceErr     \* the error Login returned from this part, "" for none

\* state of the GetToken calls
gvars == <<tokenMu, pc, tok, loaded, checkedAt, sentReq, writes, result>>

\* state of the Login invocation
\* the part of it that only LoginStart and the server goroutine set
xvars == <<session, codeVerifier, authURL, serr, lfile0>>

lvars == <<lpc, spc, port, inShutdown, codeCh, errCh, handlers, browser,
           authCode, lerr, ltok, lsent, lresult, xvars>>

\* state of one doTokenRequest call
tvars == <<resp, tres>>

\* state of the token store
svars == <<disk, saved, sres, lres, nsaves>>

\* state of the Bitbucket API client
cvars == <<npages, cop, cpc, nextURL, ci, allRepos, ptok, nprov, nreq, lastReq, cres>>

\* state of one CreateBranches or CreatePRs call
wvars == <<winput, wpc, wk, wg, wmu, results, gpc, gres, glocal, greqs, wret>>

\* state of one create or pr command
kvars == <<command, flags, cfg, rpc, targetRepos, apiCalls, output, runErr>>

\* state of the PKCE part of Login
pvars == <<verifierBytes, ppc, pkceVerifier, codeChallenge, pkceURL, pkceErr>>

\* state of the components studied on their own
ovars == <<tvars, svars, cvars, wvars, kvars, pvars>>

\* state of Login and of the GetToken calls
authvars == <<now, file, inflight, issued, gvars, lvars>>

vars == <<now, file, inflight, issued, gvars, lvars, ovars>>

\* ------------------------------------------------------------------------
\* GetToken
\* ------------------------------------------------------------------------
\* tokenMu.Lock() returns only when no goroutine holds the mutex
MutexAvailable_NoMutex == TRUE

MutexAvailable == tokenMu = Unlocked

\* time.Now().After(token.ExpiresAt.Add(-30 * time.Second))
NeedsRefresh_AtOrAfter(t, token) == t >= token.ExpiresAt - RefreshBuffer

NeedsRefresh_Before(t, token) == t < token.ExpiresAt - RefreshBuffer

NeedsRefresh(t, token) == t > token.ExpiresAt - RefreshBuffer

\* refreshToken: the request it builds
RefreshRequest_SendsAccess(i, token) ==
    [from |-> i, grant_type |-> "refresh_token", refresh_token |-> token.AccessToken,
     code |-> <<"", 0>>, code_verifier |-> <<"", 0>>]

RefreshRequest(i, token) ==
    [from |-> i, grant_type |-> "refresh_token", refresh_token |-> token.RefreshToken,
     code |-> <<"", 0>>, code_verifier |-> <<"", 0>>]

\* tokenMu.Lock()
Lock(i) ==
    /\ pc[i] = "idle"
    /\ MutexAvailable
    /\ tokenMu' = i
    /\ pc' = [pc EXCEPT ![i] = "load"]
    /\ UNCHANGED <<now, file, tok, loaded, checkedAt, sentReq, writes, result,
                   inflight, issued>>
    /\ UNCHANGED <<lvars, ovars>>

\* loadToken: os.ReadFile fails on a missing file, json.Unmarshal fails on
\* content that is not JSON; JSON without the token fields unmarshals into
\* the zero Token with a nil error
loadToken(f) ==
    IF f.state = "absent" THEN [err |-> "ENOENT", tok |-> NoToken]
    ELSE IF f.state = "partial" THEN [err |-> "parse", tok |-> NoToken]
    ELSE [err |-> "", tok |-> f.tok]

\* token, err := loadToken(); an error returns "not logged in"
LoadToken_IgnoresError(i) ==
    /\ pc[i] = "load"
    /\ tok' = [tok EXCEPT ![i] = loadToken(file).tok]
    /\ loaded' = [loaded EXCEPT ![i] = file]
    /\ pc' = [pc EXCEPT ![i] = "check"]
    /\ UNCHANGED result
    /\ UNCHANGED <<now, file, tokenMu, checkedAt, sentReq, writes, inflight, issued>>
    /\ UNCHANGED <<lvars, ovars>>

LoadToken(i) ==
    /\ pc[i] = "load"
    /\ IF loadToken(file).err = ""
         THEN /\ tok' = [tok EXCEPT ![i] = loadToken(file).tok]
              /\ loaded' = [loaded EXCEPT ![i] = file]
              /\ pc' = [pc EXCEPT ![i] = "check"]
              /\ UNCHANGED result
         ELSE /\ loaded' = [loaded EXCEPT ![i] = file]
              /\ result' = [result EXCEPT ![i] = Err("NotLoggedIn", loadToken(file).err)]
              /\ pc' = [pc EXCEPT ![i] = "unlock"]
              /\ UNCHANGED tok
    /\ UNCHANGED <<now, file, tokenMu, checkedAt, sentReq, writes, inflight, issued>>
    /\ UNCHANGED <<lvars, ovars>>

\* if time.Now().After(...) { refresh } ; return token.AccessToken, nil
CheckExpiry(i) ==
    /\ pc[i] = "check"
    /\ checkedAt' = [checkedAt EXCEPT ![i] = now]
    /\ IF NeedsRefresh(now, tok[i])
         THEN /\ pc' = [pc EXCEPT ![i] = "refresh"]
              /\ UNCHANGED result
         ELSE /\ result' = [result EXCEPT ![i] = Ok(tok[i].AccessToken)]
              /\ pc' = [pc EXCEPT ![i] = "unlock"]
    /\ UNCHANGED <<now, file, tokenMu, tok, loaded, sentReq, writes, inflight, issued>>
    /\ UNCHANGED <<lvars, ovars>>

\* refreshToken -> doTokenRequest: http.DefaultClient.Do(req) sends the request
SendRefresh_UnlocksWhileWaiting(i) ==
    /\ pc[i] = "refresh"
    /\ inflight' = inflight \cup {RefreshRequest(i, tok[i])}
    /\ sentReq' = [sentReq EXCEPT ![i] = Append(@, RefreshRequest(i, tok[i]))]
    /\ pc' = [pc EXCEPT ![i] = "await"]
    /\ tokenMu' = Unlocked
    /\ UNCHANGED <<now, file, tok, loaded, checkedAt, writes, result, issued>>
    /\ UNCHANGED <<lvars, ovars>>

SendRefresh(i) ==
    /\ pc[i] = "refresh"
    /\ inflight' = inflight \cup {RefreshRequest(i, tok[i])}
    /\ sentReq' = [sentReq EXCEPT ![i] = Append(@, RefreshRequest(i, tok[i]))]
    /\ pc' = [pc EXCEPT ![i] = "await"]
    /\ UNCHANGED <<now, file, tokenMu, tok, loaded, checkedAt, writes, result, issued>>
    /\ UNCHANGED <<lvars, ovars>>

\* doTokenRequest: status 200 with a decodable body
RefreshOk(i, ein) ==
    /\ pc[i] = "await"
    /\ issued' = issued + 1
    /\ tok' = [tok EXCEPT ![i] = IssuedToken(issued + 1, now, ein)]
    /\ inflight' = {r \in inflight : r.from # i}
    /\ pc' = [pc EXCEPT ![i] = "save"]
    /\ UNCHANGED <<now, file, tokenMu, loaded, checkedAt, sentReq, writes, result>>
    /\ UNCHANGED <<lvars, ovars>>

\* doTokenRequest fails (transport error, status # 200, undecodable body):
\* GetToken returns "token refresh failed"
RefreshError_Clobbers(i, kind) ==
    /\ pc[i] = "await"
    /\ tok' = [tok EXCEPT ![i] = NoToken]
    /\ inflight' = {r \in inflight : r.from # i}
    /\ result' = [result EXCEPT ![i] = Err("RefreshFailed", kind)]
    /\ file' = FileOf(NoToken)
    /\ pc' = [pc EXCEPT ![i] = "unlock"]
    /\ UNCHANGED <<now, tokenMu, loaded, checkedAt, sentReq, writes, issued>>
    /\ UNCHANGED <<lvars, ovars>>

RefreshError_NoUnlock(i, kind) ==
    /\ pc[i] = "await"
    /\ tok' = [tok EXCEPT ![i] = NoToken]
    /\ inflight' = {r \in inflight : r.from # i}
    /\ result' = [result EXCEPT ![i] = Err("RefreshFailed", kind)]
    /\ pc' = [pc EXCEPT ![i] = "done"]
    /\ UNCHANGED <<now, file, tokenMu, loaded, checkedAt, sentReq, writes, issued>>
    /\ UNCHANGED <<lvars, ovars>>

RefreshError(i, kind) ==
    /\ pc[i] = "await"
    /\ tok' = [tok EXCEPT ![i] = NoToken]
    /\ inflight' = {r \in inflight : r.from # i}
    /\ result' = [result EXCEPT ![i] = Err("RefreshFailed", kind)]
    /\ pc' = [pc EXCEPT ![i] = "unlock"]
    /\ UNCHANGED <<now, file, tokenMu, loaded, checkedAt, sentReq, writes, issued>>
    /\ UNCHANGED <<lvars, ovars>>

\* saveToken, up to os.WriteFile opening the file with O_TRUNC
SaveOpen(i, opened) ==
    /\ pc[i] = "save"
    /\ IF opened
         THEN /\ file' = FilePartial
              /\ writes' = [writes EXCEPT ![i] = @ + 1]
              /\ pc' = [pc EXCEPT ![i] = "saving"]
              /\ UNCHANGED result
         ELSE /\ result' = [result EXCEPT ![i] = Err("SaveFailed", "open")]
              /\ pc' = [pc EXCEPT ![i] = "unlock"]
              /\ UNCHANGED <<file, writes>>
    /\ UNCHANGED <<now, tokenMu, tok, loaded, checkedAt, sentReq, inflight, issued>>
    /\ UNCHANGED <<lvars, ovars>>

\* os.WriteFile writes the JSON and closes; then return token.AccessToken, nil
SaveWrite(i, written) ==
    /\ pc[i] = "saving"
    /\ IF written
         THEN /\ file' = FileOf(tok[i])
              /\ result' = [result EXCEPT ![i] = Ok(tok[i].AccessToken)]
         ELSE /\ file' = FilePartial
              /\ result' = [result EXCEPT ![i] = Err("SaveFailed", "write")]
    /\ pc' = [pc EXCEPT ![i] = "unlock"]
    /\ UNCHANGED <<now, tokenMu, tok, loaded, checkedAt, sentReq, writes, inflight, issued>>
    /\ UNCHANGED <<lvars, ovars>>

\* defer tokenMu.Unlock(), and the call returns
Unlock(i) ==
    /\ pc[i] = "unlock"
    /\ tokenMu' = Unlocked
    /\ pc' = [pc EXCEPT ![i] = "done"]
    /\ UNCHANGED <<now, file, tok, loaded, checkedAt, sentReq, writes, result,
                   inflight, issued>>
    /\ UNCHANGED <<lvars, ovars>>

\* the wall clock advances
Tick ==
    /\ now < Now0 + MaxElapsed
    /\ now' = now + 1
    /\ UNCHANGED <<file, tokenMu, pc, tok, loaded, checkedAt, sentReq, writes,
                   result, inflight, issued>>
    /\ UNCHANGED <<lvars, ovars>>

\* ------------------------------------------------------------------------
\* Login
\* ------------------------------------------------------------------------
\* the goroutine id of Login in token-endpoint requests
LoginId == 0

Requests == 1 .. MaxRequests

\* queries a request to /callback may carry: a code; no code and an
\* error_description; neither
QueryKinds == {"code", "denied", "bare"}

NoBrowser == [launched |-> FALSE, opened |-> FALSE, listener |-> ""]

\* the handler of callbackPath: what it sends, and on which channel
HandlerSignal_NoCodeCheck(k, kind) ==
    [ch |-> "codeCh", val |-> IF kind = "code" THEN <<"code", k>> ELSE <<"", k>>]

HandlerSignal(k, kind) ==
    IF kind = "code" THEN [ch |-> "codeCh", val |-> <<"code", k>>]
    ELSE IF kind = "denied" THEN [ch |-> "errCh", val |-> <<"authorization failed: access denied", k>>]
    ELSE [ch |-> "errCh", val |-> <<"authorization failed: no authorization code received", k>>]

\* codeVerifier := base64.RawURLEncoding.EncodeToString(verifierBytes), of
\* 64 bytes read from crypto/rand: a value no other session has
NewVerifier(n) == <<"verifier", n>>

NoVerifier == <<"", 0>>

\* codeChallenge: base64url(sha256(codeVerifier))
Challenge(v) == <<"S256", v>>

\* authURL: authorizeURL + "?" + params.Encode()
AuthorizeURL(v) ==
    [response_type |-> "code", code_challenge |-> Challenge(v),
     code_challenge_method |-> "S256"]

NoURL == [response_type |-> "", code_challenge |-> <<"", NoVerifier>>,
          code_challenge_method |-> ""]

\* exchangeCode: the request it builds
ExchangeRequest_SendsChallenge(c, v) ==
    [from |-> LoginId, grant_type |-> "authorization_code", refresh_token |-> <<"", 0>>,
     code |-> c, code_verifier |-> Challenge(v)]

ExchangeRequest(c, v) ==
    [from |-> LoginId, grant_type |-> "authorization_code", refresh_token |-> <<"", 0>>,
     code |-> c, code_verifier |-> v]

\* codeVerifier, codeChallenge, authURL, make(chan string, 1),
\* make(chan error, 1), mux, server, go func() {...}()
LoginStart_ReusesVerifier ==
    /\ lpc = "start"
    /\ session' = session + 1
    /\ codeVerifier' = IF codeVerifier = NoVerifier THEN NewVerifier(session + 1)
                                                   ELSE codeVerifier
    /\ authURL' = AuthorizeURL(codeVerifier')
    /\ lfile0' = file
    /\ lpc' = "browser"
    /\ spc' = "start"
    /\ UNCHANGED <<now, file, inflight, issued, gvars, ovars>>
    /\ UNCHANGED <<port, inShutdown, codeCh, errCh, handlers, browser, authCode,
                   lerr, ltok, lsent, lresult, serr>>

LoginStart ==
    /\ lpc = "start"
    /\ session' = session + 1
    /\ codeVerifier' = NewVerifier(session + 1)
    /\ authURL' = AuthorizeURL(NewVerifier(session + 1))
    /\ lfile0' = file
    /\ lpc' = "browser"
    /\ spc' = "start"
    /\ UNCHANGED <<now, file, inflight, issued, gvars, ovars>>
    /\ UNCHANGED <<port, inShutdown, codeCh, errCh, handlers, browser, authCode,
                   lerr, ltok, lsent, lresult, serr>>

\* server.ListenAndServe(): ErrServerClosed after Shutdown, an error when the
\* port cannot be bound, otherwise the listener accepts connections
ServerListen ==
    /\ spc = "start"
    /\ IF inShutdown
         THEN spc' = "exited" /\ UNCHANGED <<port, serr>>
         ELSE IF port = "other"
                THEN spc' = "sendErr" /\ serr' = "bind" /\ UNCHANGED port
                ELSE spc' = "serving" /\ port' = "bound" /\ UNCHANGED serr
    /\ UNCHANGED <<now, file, inflight, issued, gvars, ovars>>
    /\ UNCHANGED <<lpc, inShutdown, codeCh, errCh, handlers, browser, authCode,
                   lerr, ltok, lsent, lresult>>
    /\ UNCHANGED <<session, codeVerifier, authURL, lfile0>>

\* server.ListenAndServe() returns another error than ErrServerClosed while
\* serving (Accept fails for good); Serve closes the listener on its way out
ServerAcceptFail ==
    /\ spc = "serving"
    /\ ~inShutdown
    /\ spc' = "sendErr"
    /\ serr' = "accept"
    /\ port' = "free"
    /\ UNCHANGED <<now, file, inflight, issued, gvars, ovars>>
    /\ UNCHANGED <<lpc, inShutdown, codeCh, errCh, handlers, browser, authCode,
                   lerr, ltok, lsent, lresult>>
    /\ UNCHANGED <<session, codeVerifier, authURL, lfile0>>

\* fmt.Errorf("callback server failed: %w", err)
ServerError_Generic(cause) == "callback server failed"

ServerError(cause) ==
    IF cause = "bind" THEN "callback server failed: bind: address already in use"
    ELSE "callback server failed: accept"

\* errCh <- fmt.Errorf("callback server failed: %w", err)
ServerSendErr ==
    /\ spc = "sendErr"
    /\ Len(errCh) < 1
    /\ errCh' = Append(errCh, <<ServerError(serr), 0>>)
    /\ spc' = "exited"
    /\ UNCHANGED <<now, file, inflight, issued, gvars, ovars>>
    /\ UNCHANGED <<lpc, port, inShutdown, codeCh, handlers, browser, authCode,
                   lerr, ltok, lsent, lresult>>
    /\ UNCHANGED xvars

\* ListenAndServe returns ErrServerClosed once Shutdown has closed the listener
ServerExit ==
    /\ spc = "serving"
    /\ inShutdown
    /\ spc' = "exited"
    /\ UNCHANGED <<now, file, inflight, issued, gvars, ovars>>
    /\ UNCHANGED <<lpc, port, inShutdown, codeCh, errCh, handlers, browser, authCode,
                   lerr, ltok, lsent, lresult>>
    /\ UNCHANGED xvars

\* openBrowser(authURL); a failure only prints the URL
OpenBrowser(opened) ==
    /\ lpc = "browser"
    /\ browser' = [launched |-> TRUE, opened |-> opened, listener |-> spc]
    /\ lpc' = "select"
    /\ UNCHANGED <<now, file, inflight, issued, gvars, ovars>>
    /\ UNCHANGED <<spc, port, inShutdown, codeCh, errCh, handlers, authCode,
                   lerr, ltok, lsent, lresult>>
    /\ UNCHANGED xvars

\* a request to /callback is accepted; its handler reads the query and writes
\* the page
CallbackRequest(kind) ==
    /\ spc = "serving"
    /\ port = "bound"
    /\ Len(handlers) < MaxRequests
    /\ handlers' = Append(handlers, [kind |-> kind, st |-> "send"])
    /\ UNCHANGED <<now, file, inflight, issued, gvars, ovars>>
    /\ UNCHANGED <<lpc, spc, port, inShutdown, codeCh, errCh, browser, authCode,
                   lerr, ltok, lsent, lresult>>
    /\ UNCHANGED xvars

\* codeCh <- code, or errCh <- fmt.Errorf("authorization failed: %s", errMsg);
\* the send blocks while the channel's buffer is full
HandlerSend(k) ==
    /\ k \in 1 .. Len(handlers)
    /\ handlers[k].st = "send"
    /\ LET sig == HandlerSignal(k, handlers[k].kind) IN
         IF sig.ch = "codeCh"
           THEN /\ Len(codeCh) < 1
                /\ codeCh' = Append(codeCh, sig.val)
                /\ UNCHANGED errCh
           ELSE /\ Len(errCh) < 1
                /\ errCh' = Append(errCh, sig.val)
                /\ UNCHANGED codeCh
    /\ handlers' = [handlers EXCEPT ![k].st = "done"]
    /\ UNCHANGED <<now, file, inflight, issued, gvars, ovars>>
    /\ UNCHANGED <<lpc, spc, port, inShutdown, browser, authCode, lerr, ltok,
                   lsent, lresult>>
    /\ UNCHANGED xvars

\* select: case authCode = <-codeCh
SelectCode ==
    /\ lpc = "select"
    /\ codeCh # <<>>
    /\ authCode' = Head(codeCh)
    /\ codeCh' = Tail(codeCh)
    /\ lpc' = "shutdown"
    /\ UNCHANGED <<now, file, inflight, issued, gvars, ovars>>
    /\ UNCHANGED <<spc, port, inShutdown, errCh, handlers, browser, lerr, ltok,
                   lsent, lresult>>
    /\ UNCHANGED xvars

\* select: case err := <-errCh
SelectErr ==
    /\ lpc = "select"
    /\ errCh # <<>>
    /\ lerr' = Head(errCh)[1]
    /\ errCh' = Tail(errCh)
    /\ lpc' = "shutdown"
    /\ UNCHANGED <<now, file, inflight, issued, gvars, ovars>>
    /\ UNCHANGED <<spc, port, inShutdown, codeCh, handlers, browser, authCode, ltok,
                   lsent, lresult>>
    /\ UNCHANGED xvars

\* select: case <-time.After(5 * time.Minute). The timer fires only when
\* the select has waited 5 minutes: neither channel has a value to receive,
\* and the goroutine started before the select has long made its bind attempt.
TimerFires ==
    /\ codeCh = <<>>
    /\ errCh = <<>>
    /\ spc \notin {"start", "sendErr"}

SelectTimeout_NoShutdown ==
    /\ lpc = "select"
    /\ TimerFires
    /\ lerr' = "authorization timed out (5 minutes)"
    /\ lresult' = "authorization timed out (5 minutes)"
    /\ lpc' = "returned"
    /\ UNCHANGED <<now, file, inflight, issued, gvars, ovars>>
    /\ UNCHANGED <<spc, port, inShutdown, codeCh, errCh, handlers, browser, authCode,
                   ltok, lsent>>
    /\ UNCHANGED xvars

SelectTimeout ==
    /\ lpc = "select"
    /\ TimerFires
    /\ lerr' = "authorization timed out (5 minutes)"
    /\ lpc' = "shutdown"
    /\ UNCHANGED <<now, file, inflight, issued, gvars, ovars>>
    /\ UNCHANGED <<spc, port, inShutdown, codeCh, errCh, handlers, browser, authCode,
                   ltok, lsent, lresult>>
    /\ UNCHANGED xvars

\* server.Shutdown(context.Background()): marks the server as shutting down
\* and closes the listener
ShutdownBegin ==
    /\ lpc = "shutdown"
    /\ inShutdown' = TRUE
    /\ port' = IF port = "bound" THEN "free" ELSE port
    /\ lpc' = "shutdownWait"
    /\ UNCHANGED <<now, file, inflight, issued, gvars, ovars>>
    /\ UNCHANGED <<spc, codeCh, errCh, handlers, browser, authCode, lerr, ltok,
                   lsent, lresult>>
    /\ UNCHANGED xvars

\* server.Shutdown returns when no connection is serving a request; then
\* `return err` on the error and timeout branches
ShutdownEnd ==
    /\ lpc = "shutdownWait"
    /\ \A k \in 1 .. Len(handlers) : handlers[k].st = "done"
    /\ IF lerr # ""
         THEN lpc' = "returned" /\ lresult' = lerr
         ELSE lpc' = "exchange" /\ UNCHANGED lresult
    /\ UNCHANGED <<now, file, inflight, issued, gvars, ovars>>
    /\ UNCHANGED <<spc, port, inShutdown, codeCh, errCh, handlers, browser, authCode,
                   lerr, ltok, lsent>>
    /\ UNCHANGED xvars

\* exchangeCode -> doTokenRequest: http.DefaultClient.Do(req) sends the request
SendExchange ==
    /\ lpc = "exchange"
    /\ inflight' = inflight \cup {ExchangeRequest(authCode, codeVerifier)}
    /\ lsent' = Append(lsent, ExchangeRequest(authCode, codeVerifier))
    /\ lpc' = "awaitExchange"
    /\ UNCHANGED <<now, file, issued, gvars, ovars>>
    /\ UNCHANGED <<spc, port, inShutdown, codeCh, errCh, handlers, browser, authCode,
                   lerr, ltok, lresult>>
    /\ UNCHANGED xvars

\* doTokenRequest: status 200 with a decodable body
ExchangeOk(ein) ==
    /\ lpc = "awaitExchange"
    /\ issued' = issued + 1
    /\ ltok' = IssuedToken(issued + 1, now, ein)
    /\ inflight' = {r \in inflight : r.from # LoginId}
    /\ lpc' = "save"
    /\ UNCHANGED <<now, file, gvars, ovars>>
    /\ UNCHANGED <<spc, port, inShutdown, codeCh, errCh, handlers, browser, authCode,
                   lerr, lsent, lresult>>
    /\ UNCHANGED xvars

\* doTokenRequest fails: Login returns its error
ExchangeError_Retries(kind) ==
    /\ lpc = "awaitExchange"
    /\ inflight' = {r \in inflight : r.from # LoginId}
    /\ lerr' = kind
    /\ IF Len(lsent) < 2
         THEN lpc' = "exchange" /\ lresult' = lresult
         ELSE lpc' = "returned" /\ lresult' = kind
    /\ UNCHANGED <<now, file, issued, gvars, ovars>>
    /\ UNCHANGED <<spc, port, inShutdown, codeCh, errCh, handlers, browser, authCode,
                   ltok, lsent>>
    /\ UNCHANGED xvars

ExchangeError(kind) ==
    /\ lpc = "awaitExchange"
    /\ inflight' = {r \in inflight : r.from # LoginId}
    /\ lerr' = kind
    /\ lresult' = kind
    /\ lpc' = "returned"
    /\ UNCHANGED <<now, file, issued, gvars, ovars>>
    /\ UNCHANGED <<spc, port, inShutdown, codeCh, errCh, handlers, browser, authCode,
                   ltok, lsent>>
    /\ UNCHANGED xvars

\* saveToken(token), up to os.WriteFile opening the file with O_TRUNC
LoginSaveOpen(opened) ==
    /\ lpc = "save"
    /\ IF opened
         THEN /\ file' = FilePartial
              /\ lpc' = "saving"
              /\ UNCHANGED <<lerr, lresult>>
         ELSE /\ lerr' = "save failed: open"
              /\ lresult' = "save failed: open"
              /\ lpc' = "returned"
              /\ UNCHANGED file
    /\ UNCHANGED <<now, inflight, issued, gvars, ovars>>
    /\ UNCHANGED <<spc, port, inShutdown, codeCh, errCh, handlers, browser, authCode,
                   ltok, lsent>>
    /\ UNCHANGED xvars

\* os.WriteFile writes the JSON and closes; "Login successful!", return nil
LoginSaveWrite_IgnoresError(written) ==
    /\ lpc = "saving"
    /\ file' = IF written THEN FileOf(ltok) ELSE FilePartial
    /\ lresult' = "ok"
    /\ lpc' = "returned"
    /\ UNCHANGED <<now, inflight, issued, gvars, ovars>>
    /\ UNCHANGED <<spc, port, inShutdown, codeCh, errCh, handlers, browser, authCode,
                   lerr, ltok, lsent>>
    /\ UNCHANGED xvars

LoginSaveWrite(written) ==
    /\ lpc = "saving"
    /\ IF written
         THEN /\ file' = FileOf(ltok)
              /\ lresult' = "ok"
              /\ UNCHANGED lerr
         ELSE /\ file' = FilePartial
              /\ lerr' = "save failed: write"
              /\ lresult' = "save failed: write"
    /\ lpc' = "returned"
    /\ UNCHANGED <<now, inflight, issued, gvars, ovars>>
    /\ UNCHANGED <<spc, port, inShutdown, codeCh, errCh, handlers, browser, authCode,
                   ltok, lsent>>
    /\ UNCHANGED xvars

\* Login is invoked again after it has returned: new channels, a new server,
\* new local variables
LoginAgain ==
    /\ lpc = "returned"
    /\ session < MaxSessions
    /\ lpc' = "start"
    /\ spc' = "none"
    /\ inShutdown' = FALSE
    /\ codeCh' = <<>>
    /\ errCh' = <<>>
    /\ handlers' = <<>>
    /\ browser' = NoBrowser
    /\ authCode' = <<"", 0>>
    /\ lerr' = ""
    /\ ltok' = NoToken
    /\ lsent' = <<>>
    /\ lresult' = ""
    /\ serr' = ""
    /\ UNCHANGED <<now, file, inflight, issued, gvars, ovars>>
    /\ UNCHANGED <<port, session, codeVerifier, authURL, lfile0>>

\* no Login has been invoked
LoginIdle ==
    /\ lpc = "start"
    /\ spc = "none"
    /\ inShutdown = FALSE
    /\ codeCh = <<>>
    /\ errCh = <<>>
    /\ handlers = <<>>
    /\ browser = NoBrowser
    /\ authCode = <<"", 0>>
    /\ lerr = ""
    /\ ltok = NoToken
    /\ lsent = <<>>
    /\ lresult = ""
    /\ session = 0
    /\ codeVerifier = NoVerifier
    /\ authURL = NoURL
    /\ serr = ""
    /\ lfile0 = FileAbsent

\* no result
NoTokenResult == [kind |-> "none"]

TokenRequestIdle ==
    /\ resp = [transport |-> "", status |-> 0, body |-> [kind |-> "none"]]
    /\ tres = NoTokenResult

\* time.Time: seconds and nanoseconds of the wall clock, and whether the
\* value carries a monotonic clock reading (as time.Now() does)
Time(sec, nsec, mono) == [sec |-> sec, nsec |-> nsec, mono |-> mono]

ZeroTime == Time(0, 0, FALSE)

\* ~/.bbranch does not exist
NoDisk == [dirPerm |-> 0, filePerm |-> 0, exists |-> FALSE, data |-> <<>>]

NoLoad == [err |-> "none", tok |-> Token(<<>>, <<>>, ZeroTime)]

StoreIdle ==
    /\ disk = NoDisk
    /\ saved = Token(<<>>, <<>>, ZeroTime)
    /\ sres = "none"
    /\ lres = NoLoad
    /\ nsaves = 0

NoRequest == [method |-> "", url |-> <<"", 0>>, bearer |-> <<"", 0>>]

NoClientResult == [status |-> "none", err |-> "", wrap |-> "", repos |-> <<>>]

ClientIdle ==
    /\ npages = 0
    /\ cop = ""
    /\ cpc = "idle"
    /\ nextURL = 0
    /\ ci = 0
    /\ allRepos = <<>>
    /\ ptok = <<"", 0>>
    /\ nprov = 0
    /\ nreq = 0
    /\ lastReq = NoRequest
    /\ cres = NoClientResult

\* the per-repo goroutines a call may start
Workers == 1 .. MaxRepos

\* type Result struct
Result(slug, success, err) == [RepoSlug |-> slug, Success |-> success, Error |-> err]

WorkersIdle ==
    /\ wk = 1
    /\ wg = 0
    /\ wmu = 0
    /\ results = <<>>
    /\ gpc = [g \in Workers |-> "new"]
    /\ gres = [g \in Workers |-> Result(0, FALSE, "")]
    /\ glocal = [g \in Workers |-> <<>>]
    /\ greqs = [g \in Workers |-> <<>>]
    /\ wret = <<>>

CreatorIdle ==
    /\ winput = [kind |-> "", repos |-> <<>>, destination |-> ""]
    /\ wpc = "idle"
    /\ WorkersIdle

\* no command is running
\* what viper holds: whether it unmarshals, workspace, credentials of the
\* auth method, defaults.source_branch
ConfigFile(parses, workspace, credentials, source) ==
    [parses |-> parses, Workspace |-> workspace, credentials |-> credentials,
     SourceBranch |-> source]

NoOutput == [kind |-> "", repos |-> <<>>, source |-> "", dest |-> ""]

RunIdle ==
    /\ command = ""
    /\ flags = [repos |-> "", group |-> "", interactive |-> FALSE, dryRun |-> FALSE,
                from |-> "", destination |-> ""]
    /\ cfg = ConfigFile(FALSE, "", FALSE, "")
    /\ rpc = "idle"
    /\ targetRepos = <<>>
    /\ apiCalls = <<>>
    /\ output = NoOutput
    /\ runErr = ""

\* the PKCE part of Login is not running
NoAuthorizeURL == [code_challenge |-> <<>>, code_challenge_method |-> ""]

PKCEIdle ==
    /\ verifierBytes = <<>>
    /\ ppc = "idle"
    /\ pkceVerifier = <<>>
    /\ codeChallenge = <<>>
    /\ pkceURL = NoAuthorizeURL
    /\ pkceErr = ""

\* the components studied on their own are not in use
OthersIdle ==
    /\ TokenRequestIdle
    /\ StoreIdle
    /\ ClientIdle
    /\ CreatorIdle
    /\ RunIdle
    /\ PKCEIdle

\* no GetToken has been called
CallersIdle ==
    /\ tokenMu = Unlocked
    /\ pc = [i \in Callers |-> "idle"]
    /\ tok = [i \in Callers |-> NoToken]
    /\ loaded = [i \in Callers |-> FileAbsent]
    /\ checkedAt = [i \in Callers |-> -1]
    /\ sentReq = [i \in Callers |-> <<>>]
    /\ writes = [i \in Callers |-> 0]
    /\ result = [i \in Callers |-> NoResult]

Init ==
    /\ now = Now0
    /\ file \in {FileAbsent, FilePartial, FileNoFields}
                \cup {FileOf(InitToken(e)) : e \in InitExpiresAt}
    /\ CallersIdle
    /\ inflight = {}
    /\ issued = 0
    /\ port = "free"
    /\ LoginIdle
    /\ OthersIdle

Next ==
    \/ \E i \in Callers : Lock(i)
    \/ \E i \in Callers : LoadToken(i)
    \/ \E i \in Callers : CheckExpiry(i)
    \/ \E i \in Callers : SendRefresh(i)
    \/ \E i \in Callers : \E ein \in ExpiresInValues : RefreshOk(i, ein)
    \/ \E i \in Callers : \E kind \in {"transport", "status", "decode"} : RefreshError(i, kind)
    \/ \E i \in Callers : \E opened \in BOOLEAN : SaveOpen(i, opened)
    \/ \E i \in Callers : \E written \in BOOLEAN : SaveWrite(i, written)
    \/ \E i \in Callers : Unlock(i)
    \/ Tick

Spec == Init /\ [][Next]_vars

\* the steps of the GetToken calls, of the token endpoint answering and of
\* the file system: everything but the passage of time
CallerSteps ==
    \/ \E i \in Callers : Lock(i)
    \/ \E i \in Callers : LoadToken(i)
    \/ \E i \in Callers : CheckExpiry(i)
    \/ \E i \in Callers : SendRefresh(i)
    \/ \E i \in Callers : \E ein \in ExpiresInValues : RefreshOk(i, ein)
    \/ \E i \in Callers : \E kind \in {"transport", "status", "decode"} : RefreshError(i, kind)
    \/ \E i \in Callers : \E opened \in BOOLEAN : SaveOpen(i, opened)
    \/ \E i \in Callers : \E written \in BOOLEAN : SaveWrite(i, written)
    \/ \E i \in Callers : Unlock(i)

\* goroutines that can run do run; every token-endpoint request and every
\* file operation returns
SpecFair == Spec /\ WF_vars(CallerSteps)

InitLogin ==
    /\ now = Now0
    /\ file \in {FileAbsent, FileOf(InitToken(Now0 + 600))}
    /\ CallersIdle
    /\ inflight = {}
    /\ issued = 0
    /\ port \in {"free", "other"}
    /\ LoginIdle
    /\ OthersIdle

NextLogin ==
    \/ LoginStart
    \/ ServerListen
    \/ ServerAcceptFail
    \/ ServerSendErr
    \/ ServerExit
    \/ \E opened \in BOOLEAN : OpenBrowser(opened)
    \/ \E kind \in QueryKinds : CallbackRequest(kind)
    \/ \E k \in Requests : HandlerSend(k)
    \/ SelectCode
    \/ SelectErr
    \/ SelectTimeout
    \/ ShutdownBegin
    \/ ShutdownEnd
    \/ SendExchange
    \/ \E ein \in ExpiresInValues : ExchangeOk(ein)
    \/ \E kind \in {"transport", "status", "decode"} : ExchangeError(kind)
    \/ \E opened \in BOOLEAN : LoginSaveOpen(opened)
    \/ \E written \in BOOLEAN : LoginSaveWrite(written)

SpecLogin == InitLogin /\ [][NextLogin]_vars

\* one process runs one command: either Login, or commands that call GetToken
InitCmd ==
    /\ now = Now0
    /\ file \in {FileAbsent, FilePartial, FileNoFields}
                \cup {FileOf(InitToken(e)) : e \in InitExpiresAt}
    /\ CallersIdle
    /\ inflight = {}
    /\ issued = 0
    /\ port \in {"free", "other"}
    /\ LoginIdle
    /\ OthersIdle

NextCmd ==
    \/ (\A i \in Callers : pc[i] = "idle") /\ NextLogin
    \/ lpc = "start" /\ Next

SpecCmd == InitCmd /\ [][NextCmd]_vars

\* one process in which GetToken is called while Login runs: Login finds an
\* expired token in the store, and one GetToken call is made once Login has
\* taken the code of a single callback request and its server goroutine has
\* exited
InitConcurrent ==
    /\ now = Now0
    /\ file = FileOf(InitToken(Now0 - 300))
    /\ CallersIdle
    /\ inflight = {}
    /\ issued = 0
    /\ port = "free"
    /\ LoginIdle
    /\ OthersIdle

NextConcurrent ==
    \/ NextLogin
    \/ /\ lpc \in {"exchange", "awaitExchange", "save", "saving", "returned"}
       /\ handlers = <<[kind |-> "code", st |-> "done"]>>
       /\ spc = "exited"
       /\ \/ Lock(1)
          \/ LoadToken(1)
          \/ CheckExpiry(1)
          \/ SendRefresh(1)
          \/ \E ein \in ExpiresInValues : RefreshOk(1, ein)
          \/ \E kind \in {"transport", "status", "decode"} : RefreshError(1, kind)
          \/ \E opened \in BOOLEAN : SaveOpen(1, opened)
          \/ \E written \in BOOLEAN : SaveWrite(1, written)
          \/ Unlock(1)

SpecConcurrent == InitConcurrent /\ [][NextConcurrent]_vars

\* successive Login invocations
SpecSessions == InitLogin /\ [][NextLogin \/ LoginAgain]_vars

\* the steps of Login, of its server goroutine and handler goroutines, of the
\* token endpoint answering and of the file system: everything but the
\* arrival of a request and the failure of the listener
LoginSteps ==
    \/ LoginStart
    \/ ServerListen
    \/ ServerSendErr
    \/ ServerExit
    \/ \E opened \in BOOLEAN : OpenBrowser(opened)
    \/ \E k \in Requests : HandlerSend(k)
    \/ SelectCode
    \/ SelectErr
    \/ SelectTimeout
    \/ ShutdownBegin
    \/ ShutdownEnd
    \/ SendExchange
    \/ \E ein \in ExpiresInValues : ExchangeOk(ein)
    \/ \E kind \in {"transport", "status", "decode"} : ExchangeError(kind)
    \/ \E opened \in BOOLEAN : LoginSaveOpen(opened)
    \/ \E written \in BOOLEAN : LoginSaveWrite(written)

\* goroutines that can run do run, the timer fires, the token endpoint and
\* the file system respond
SpecLoginFair == SpecLogin /\ WF_vars(LoginSteps)

\* Login and GetToken are not in use
AuthIdle ==
    /\ now = Now0
    /\ file = FileAbsent
    /\ CallersIdle
    /\ inflight = {}
    /\ issued = 0
    /\ port = "free"
    /\ LoginIdle

\* ------------------------------------------------------------------------
\* doTokenRequest
\* ------------------------------------------------------------------------
\* a JSON object: the keys it has and their values
JSONBody(keys, a, r, ein, e, d) ==
    [kind |-> "json", keys |-> keys, access_token |-> a, refresh_token |-> r,
     expires_in |-> ein, error |-> e, error_description |-> d]

\* a body that is not JSON ("{{not valid json"), and no body at all
GarbageBody == [JSONBody({}, <<"", 0>>, <<"", 0>>, 0, "", "") EXCEPT !.kind = "garbage"]

EmptyBody == [JSONBody({}, <<"", 0>>, <<"", 0>>, 0, "", "") EXCEPT !.kind = "empty"]

TokenBody(ein) ==
    JSONBody({"access_token", "refresh_token", "expires_in"},
             <<"access", 1>>, <<"refresh", 1>>, ein, "", "")

ErrorBody ==
    JSONBody({"error", "error_description"}, <<"", 0>>, <<"", 0>>, 0,
             "invalid_client", "Client authentication failed")

Bodies ==
    {TokenBody(ein) : ein \in ExpiresInValues}
        \cup {JSONBody({"access_token", "refresh_token"},
                       <<"access", 1>>, <<"refresh", 1>>, 0, "", ""),
              JSONBody({}, <<"", 0>>, <<"", 0>>, 0, "", ""),
              ErrorBody, GarbageBody, EmptyBody}

\* what http.DefaultClient.Do may return: an error, or a response
Responses ==
    {[transport |-> "failed", status |-> 0, body |-> EmptyBody]}
        \cup {[transport |-> "ok", status |-> st, body |-> b] : st \in {200, 201, 204, 400, 401, 500},
                b \in Bodies}

\* json.NewDecoder(resp.Body).Decode(&v) fails on a body that is not JSON
Decodes(b) == b.kind = "json"

\* the value Decode leaves in a struct field: the value of the key, or the
\* field's zero value when the body has no such key or did not decode
Field(b, key, zero) == IF Decodes(b) /\ key \in b.keys THEN b[key] ELSE zero

TokenResult(tk) ==
    [kind |-> "token", msg |-> "", status |-> 0, error |-> "", description |-> "", tok |-> tk]

TokenError(msg, st, e, d) ==
    [kind |-> "error", msg |-> msg, status |-> st, error |-> e, description |-> d,
     tok |-> NoToken]

\* doTokenRequest, from the return of http.DefaultClient.Do on; t is time.Now()
doTokenRequest_StatusClass(r, t) ==
    IF r.transport # "ok"
      THEN TokenError("token request failed", 0, "", "")
    ELSE IF r.status < 200 \/ r.status > 299
      THEN TokenError("token exchange failed", r.status,
                      Field(r.body, "error", ""), Field(r.body, "error_description", ""))
    ELSE IF ~Decodes(r.body)
      THEN TokenError("failed to parse token response", 0, "", "")
    ELSE TokenResult(Token(Field(r.body, "access_token", <<"", 0>>),
                           Field(r.body, "refresh_token", <<"", 0>>),
                           t + Field(r.body, "expires_in", 0)))

doTokenRequest_NoBase(r, t) ==
    IF r.transport # "ok"
      THEN TokenError("token request failed", 0, "", "")
    ELSE IF r.status # 200
      THEN TokenError("token exchange failed", r.status,
                      Field(r.body, "error", ""), Field(r.body, "error_description", ""))
    ELSE IF ~Decodes(r.body)
      THEN TokenError("failed to parse token response", 0, "", "")
    ELSE TokenResult(Token(Field(r.body, "access_token", <<"", 0>>),
                           Field(r.body, "refresh_token", <<"", 0>>),
                           Field(r.body, "expires_in", 0)))

doTokenRequest(r, t) ==
    IF r.transport # "ok"
      THEN TokenError("token request failed", 0, "", "")
    ELSE IF r.status # 200
      THEN TokenError("token exchange failed", r.status,
                      Field(r.body, "error", ""), Field(r.body, "error_description", ""))
    ELSE IF ~Decodes(r.body)
      THEN TokenError("failed to parse token response", 0, "", "")
    ELSE TokenResult(Token(Field(r.body, "access_token", <<"", 0>>),
                           Field(r.body, "refresh_token", <<"", 0>>),
                           t + Field(r.body, "expires_in", 0)))

\* one call of doTokenRequest on the response the client got
DoTokenRequest ==
    /\ tres = NoTokenResult
    /\ tres' = doTokenRequest(resp, now)
    /\ UNCHANGED resp
    /\ UNCHANGED <<authvars, svars, cvars, wvars, kvars, pvars>>

InitTokenRequest ==
    /\ AuthIdle
    /\ StoreIdle
    /\ ClientIdle
    /\ CreatorIdle
    /\ RunIdle
    /\ PKCEIdle
    /\ resp \in Responses
    /\ tres = NoTokenResult

NextTokenRequest ==
    \/ DoTokenRequest
    \/ Tick

SpecTokenRequest == InitTokenRequest /\ [][NextTokenRequest]_vars

\* refreshToken returns what doTokenRequest makes of the response r of the
\* token endpoint: the Token it decodes, or its error
RefreshResponse(i, r) ==
    LET out == doTokenRequest(r, now)
    IN  IF out.kind = "token"
          THEN /\ pc[i] = "await"
               /\ issued' = issued + 1
               /\ tok' = [tok EXCEPT ![i] = out.tok]
               /\ inflight' = {q \in inflight : q.from # i}
               /\ pc' = [pc EXCEPT ![i] = "save"]
               /\ UNCHANGED <<now, file, tokenMu, loaded, checkedAt, sentReq, writes, result>>
               /\ UNCHANGED <<lvars, ovars>>
          ELSE RefreshError(i, IF out.msg = "token request failed" THEN "transport"
                               ELSE IF out.msg = "token exchange failed" THEN "status"
                               ELSE "decode")

\* the GetToken calls, with the responses of the token endpoint decoded by
\* doTokenRequest
NextDecoded ==
    \/ \E i \in Callers : Lock(i)
    \/ \E i \in Callers : LoadToken(i)
    \/ \E i \in Callers : CheckExpiry(i)
    \/ \E i \in Callers : SendRefresh(i)
    \/ \E i \in Callers : \E r \in Responses : RefreshResponse(i, r)
    \/ \E i \in Callers : \E opened \in BOOLEAN : SaveOpen(i, opened)
    \/ \E i \in Callers : \E written \in BOOLEAN : SaveWrite(i, written)
    \/ \E i \in Callers : Unlock(i)
    \/ Tick

SpecDecoded == Init /\ [][NextDecoded]_vars

\* ------------------------------------------------------------------------
\* saveToken and loadToken on the bytes of the token file
\* ------------------------------------------------------------------------
\* permissions, written with the digits of their octal value
FilePerm == 600

DirPerm == 700

StoreTimes == {ZeroTime, Time(Now0 + 3600, 0, TRUE), Time(Now0 + 3600, 5, TRUE)}

\* the tokens saved; strings are sequences of characters
StoreTokens ==
    {Token(a, r, e) : a \in {<<>>, <<"x">>, <<"x", "y", "x">>}, r \in {<<>>, <<"y">>},
                      e \in StoreTimes}

\* Time.MarshalJSON: RFC 3339 with nanoseconds; the monotonic reading is
\* not part of the text
FormatTime(t) == ToString(t.sec) \o "." \o ToString(t.nsec)

\* json.MarshalIndent(token, "", "  "): the bytes, one element per character
\* of a string value
Marshal(t) ==
    <<"{">> \o t.AccessToken \o <<",">> \o t.RefreshToken \o <<",">>
            \o <<FormatTime(t.ExpiresAt)>> \o <<"}">>

\* Time.UnmarshalJSON
ParsesAsTime(str) == \E t \in StoreTimes : FormatTime(t) = str

ParseTime(str) ==
    LET t == CHOOSE t \in StoreTimes : FormatTime(t) = str
    IN  Time(t.sec, t.nsec, FALSE)

Positions(c, ch) == {k \in 1 .. Len(c) : c[k] = ch}

MinOf(S) == CHOOSE k \in S : \A j \in S : k <= j

LoadOk(t) == [err |-> "", tok |-> t]

LoadErr(e) == [err |-> e, tok |-> Token(<<>>, <<>>, ZeroTime)]

\* json.Unmarshal(data, &token)
Unmarshal(c) ==
    LET closes == Positions(c, "}")
        commas == Positions(c, ",")
    IN  IF Len(c) = 0 \/ c[1] # "{" \/ closes = {}
          THEN LoadErr("syntax")
        ELSE IF MinOf(closes) < Len(c)
          THEN LoadErr("syntax")
        ELSE IF Len(c) = 2
          THEN LoadOk(Token(<<>>, <<>>, ZeroTime))
        ELSE IF Cardinality(commas) # 2
          THEN LoadErr("syntax")
        ELSE LET c1 == MinOf(commas)
                 c2 == MinOf(commas \ {c1})
             IN  IF c2 + 2 # Len(c) \/ ~ParsesAsTime(c[c2 + 1])
                   THEN LoadErr("syntax")
                   ELSE LoadOk(Token(SubSeq(c, 2, c1 - 1), SubSeq(c, c1 + 1, c2 - 1),
                                     ParseTime(c[c2 + 1])))

\* os.MkdirAll(dir, 0700): creates the directory with that permission when
\* it does not exist, and does nothing when it does
MkdirAll(d) == IF d.dirPerm = 0 THEN [d EXCEPT !.dirPerm = DirPerm] ELSE d

\* the owner may write the file
Writable(d) == ~d.exists \/ d.filePerm \in {600, 644}

\* os.WriteFile(path, data, 0600): O_WRONLY|O_CREATE|O_TRUNC; the
\* permission is used only when the file is created
WriteFile_NoTrunc(d, data) ==
    [d EXCEPT !.exists = TRUE,
              !.filePerm = IF d.exists THEN d.filePerm ELSE FilePerm,
              !.data = data \o SubSeq(d.data, Len(data) + 1, Len(d.data))]

WriteFile(d, data) ==
    [d EXCEPT !.exists = TRUE,
              !.filePerm = IF d.exists THEN d.filePerm ELSE FilePerm,
              !.data = data]

\* saveToken(token)
StoreSave(t) ==
    /\ nsaves < MaxSaves
    /\ nsaves' = nsaves + 1
    /\ saved' = t
    /\ lres' = NoLoad
    /\ IF Writable(MkdirAll(disk))
         THEN /\ disk' = WriteFile(MkdirAll(disk), Marshal(t))
              /\ sres' = "ok"
         ELSE /\ disk' = MkdirAll(disk)
              /\ sres' = "permission denied"
    /\ UNCHANGED <<authvars, tvars, cvars, wvars, kvars, pvars>>

\* loadToken()
StoreLoad ==
    /\ lres = NoLoad
    /\ lres' = IF disk.exists THEN Unmarshal(disk.data) ELSE LoadErr("ENOENT")
    /\ UNCHANGED <<disk, saved, sres, nsaves>>
    /\ UNCHANGED <<authvars, tvars, cvars, wvars, kvars, pvars>>

\* what the home directory may hold before the first save
InitDisks ==
    {NoDisk}
        \cup {[dirPerm |-> dp, filePerm |-> 0, exists |-> FALSE, data |-> <<>>] :
                 dp \in {700, 755}}
        \cup {[dirPerm |-> dp, filePerm |-> fp, exists |-> TRUE, data |-> c] :
                 dp \in {700, 755}, fp \in {600, 644, 400},
                 c \in {Marshal(Token(<<"x", "y", "x">>, <<"y">>, Time(Now0, 0, FALSE))),
                        <<"{", "{", "x">>}}

InitStore ==
    /\ AuthIdle
    /\ TokenRequestIdle
    /\ ClientIdle
    /\ CreatorIdle
    /\ RunIdle
    /\ PKCEIdle
    /\ disk \in InitDisks
    /\ saved = Token(<<>>, <<>>, ZeroTime)
    /\ sres = "none"
    /\ lres = NoLoad
    /\ nsaves = 0

NextStore ==
    \/ \E t \in StoreTokens : StoreSave(t)
    \/ StoreLoad

SpecStore == InitStore /\ [][NextStore]_vars

\* ------------------------------------------------------------------------
\* bitbucket.Client: doRequest, ListRepositories, GetRepository, CreateBranch
\* ------------------------------------------------------------------------
\* const maxPages = 50
maxPages == 50

\* the repositories on page k of the listing: two on odd pages, one on even
PageValues(k) == IF k % 2 = 1 THEN << <<"repo", k, 1>>, <<"repo", k, 2>> >>
                              ELSE << <<"repo", k, 1>> >>

\* page.Next of page k: the next page, "" on the last one
PageNext(k) == IF k < npages THEN k + 1 ELSE 0

\* the error a method returns: doRequest's error, wrapped by the method
ClientError(op, err) ==
    [status |-> "error", err |-> err,
     wrap |-> IF op = "ListRepositories" THEN "failed to list repositories"
              ELSE IF op = "GetRepository" THEN "failed to get repository"
              ELSE "",
     repos |-> <<>>]

ClientOk(repos) == [status |-> "ok", err |-> "", wrap |-> "", repos |-> repos]

\* a method of the client is called; it calls doRequest
ClientCall(op) ==
    /\ cpc = "idle"
    /\ cop' = op
    /\ nextURL' = IF op = "ListRepositories" THEN 1 ELSE 0
    /\ cpc' = "token"
    /\ UNCHANGED <<npages, ci, allRepos, ptok, nprov, nreq, lastReq, cres>>
    /\ UNCHANGED <<authvars, tvars, svars, wvars, kvars, pvars>>

\* doRequest: token, err := c.tokenProvider()
TokenProvider(ok, k) ==
    /\ cpc = "token"
    /\ IF ok
         THEN /\ ptok' = <<"access", k>>
              /\ nprov' = nprov + 1
              /\ cpc' = "send"
              /\ UNCHANGED cres
         ELSE /\ cres' = ClientError(cop, "auth error")
              /\ cpc' = "done"
              /\ UNCHANGED <<ptok, nprov>>
    /\ UNCHANGED <<npages, cop, nextURL, ci, allRepos, nreq, lastReq>>
    /\ UNCHANGED <<authvars, tvars, svars, wvars, kvars, pvars>>

\* doRequest: the request it builds
BuildRequest(op, page, token) ==
    [method |-> IF op = "CreateBranch" THEN "POST" ELSE "GET",
     url |-> <<op, page>>, bearer |-> token]

\* doRequest: c.httpClient.Do(req) sends the request
HttpDo ==
    /\ cpc = "send"
    /\ lastReq' = BuildRequest(cop, nextURL, ptok)
    /\ nreq' = nreq + 1
    /\ cpc' = "response"
    /\ UNCHANGED <<npages, cop, nextURL, ci, allRepos, ptok, nprov, cres>>
    /\ UNCHANGED <<authvars, tvars, svars, wvars, kvars, pvars>>

\* ListRepositories: for i := 0; nextURL != "" && i < maxPages; i++
LoopContinues(next, i) == next # 0 /\ i < maxPages

\* where the method goes on after a page: the next doRequest starts with
\* the tokenProvider call
NextRequest_ReusesToken == "send"

NextRequest == "token"

\* doRequest: the outcome of c.httpClient.Do, the status check and the
\* decoding; then the rest of the method that called doRequest
HttpResponse(outcome) ==
    /\ cpc = "response"
    /\ IF outcome # "ok"
         THEN /\ cres' = ClientError(cop, outcome)
              /\ cpc' = "done"
              /\ UNCHANGED <<nextURL, ci, allRepos>>
         ELSE IF cop # "ListRepositories"
         THEN /\ cres' = ClientOk(<<>>)
              /\ cpc' = "done"
              /\ UNCHANGED <<nextURL, ci, allRepos>>
         ELSE /\ allRepos' = allRepos \o PageValues(nextURL)
              /\ nextURL' = PageNext(nextURL)
              /\ ci' = ci + 1
              /\ IF LoopContinues(nextURL', ci')
                   THEN cpc' = NextRequest /\ UNCHANGED cres
                   ELSE cpc' = "done" /\ cres' = ClientOk(allRepos')
    /\ UNCHANGED <<npages, cop, ptok, nprov, nreq, lastReq>>
    /\ UNCHANGED <<authvars, tvars, svars, wvars, kvars, pvars>>

InitClient ==
    /\ AuthIdle
    /\ TokenRequestIdle
    /\ StoreIdle
    /\ CreatorIdle
    /\ RunIdle
    /\ PKCEIdle
    /\ npages \in 1 .. MaxServerPages
    /\ cop = ""
    /\ cpc = "idle"
    /\ nextURL = 0
    /\ ci = 0
    /\ allRepos = <<>>
    /\ ptok = <<"", 0>>
    /\ nprov = 0
    /\ nreq = 0
    /\ lastReq = NoRequest
    /\ cres = NoClientResult

NextClient ==
    \/ \E op \in {"ListRepositories", "GetRepository", "CreateBranch"} : ClientCall(op)
    \/ \E ok \in BOOLEAN : \E k \in {1, 2} : TokenProvider(ok, k)
    \/ HttpDo
    \/ \E outcome \in {"ok", "request failed", "API error", "failed to decode response"} :
          HttpResponse(outcome)

SpecClient == InitClient /\ [][NextClient]_vars

\* ------------------------------------------------------------------------
\* creator.CreateBranches and pullrequest.CreatePRs
\* ------------------------------------------------------------------------
\* repo slugs are numbers, ordered as the slugs are by <
Slugs == {1, 2, 3}

\* the lists of repos a call is given: every list of at most MaxRepos
\* slugs in non-increasing order, repetitions included (the goroutines
\* append in any order whatever the order of the list)
RepoLists ==
    {rs \in UNION {[1 .. n -> Slugs] : n \in 0 .. MaxRepos} :
        \A i \in 1 .. Len(rs) - 1 : rs[i] >= rs[i + 1]}

\* repo.MainBranch of a repository: named on odd slugs, nil on even ones
MainBranchName(slug) == IF slug % 2 = 1 THEN "develop" ELSE ""

\* CreatePRs: dest := destination; if dest == "" { GetRepository ... }
ResolvesViaAPI(destination) == destination = ""

\* CreatePRs: the destination branch of the pull request
DestinationBranch(destination, slug) ==
    IF ResolvesViaAPI(destination)
      THEN IF MainBranchName(slug) # "" THEN MainBranchName(slug) ELSE "main"
      ELSE destination

APIRequest(op, dest) == [op |-> op, dest |-> dest]

\* the requests one goroutine makes, as far as outcome lets it go
RequestsOf(in, slug, outcome) ==
    IF in.kind = "CreateBranches"
      THEN <<APIRequest("CreateBranch", "")>>
    ELSE (IF ResolvesViaAPI(in.destination)
            THEN <<APIRequest("GetRepository", "")>> ELSE <<>>)
         \o (IF outcome = "get failed"
               THEN <<>>
               ELSE <<APIRequest("ListCommits", DestinationBranch(in.destination, slug)),
                      APIRequest("CreatePullRequest",
                                 DestinationBranch(in.destination, slug))>>)

\* for _, repo := range repos { wg.Add(1); go func(repoSlug string) {...}(repo) }
Spawn ==
    /\ wpc = "loop"
    /\ wg' = wg + 1
    /\ gpc' = [gpc EXCEPT ![wk] = "run"]
    /\ gres' = [gres EXCEPT ![wk] = Result(winput.repos[wk], FALSE, "")]
    /\ wk' = wk + 1
    /\ wpc' = IF wk = Len(winput.repos) THEN "wait" ELSE "loop"
    /\ UNCHANGED <<winput, wmu, results, glocal, greqs, wret>>
    /\ UNCHANGED <<authvars, tvars, svars, cvars, kvars, pvars>>

\* the goroutine's API calls and the Result it builds from them
Work(g, outcome) ==
    /\ gpc[g] = "run"
    /\ outcome = "get failed" =>
          (winput.kind = "CreatePRs" /\ ResolvesViaAPI(winput.destination))
    /\ greqs' = [greqs EXCEPT ![g] = RequestsOf(winput, gres[g].RepoSlug, outcome)]
    /\ gres' = [gres EXCEPT ![g] =
                   Result(gres[g].RepoSlug, outcome = "ok",
                          IF outcome = "ok" THEN "" ELSE outcome)]
    /\ gpc' = [gpc EXCEPT ![g] = "lock"]
    /\ UNCHANGED <<winput, wpc, wk, wg, wmu, results, glocal, wret>>
    /\ UNCHANGED <<authvars, tvars, svars, cvars, kvars, pvars>>

\* mu.Lock() returns only when no goroutine holds mu
MuFree_NoMutex == TRUE

MuFree == wmu = 0

\* mu.Lock(); append reads results
LockResults(g) ==
    /\ gpc[g] = "lock"
    /\ MuFree
    /\ wmu' = g
    /\ glocal' = [glocal EXCEPT ![g] = results]
    /\ gpc' = [gpc EXCEPT ![g] = "write"]
    /\ UNCHANGED <<winput, wpc, wk, wg, results, gres, greqs, wret>>
    /\ UNCHANGED <<authvars, tvars, svars, cvars, kvars, pvars>>

\* results = append(results, result); mu.Unlock()
AppendResult(g) ==
    /\ gpc[g] = "write"
    /\ results' = Append(glocal[g], gres[g])
    /\ wmu' = 0
    /\ gpc' = [gpc EXCEPT ![g] = "exit"]
    /\ UNCHANGED <<winput, wpc, wk, wg, gres, glocal, greqs, wret>>
    /\ UNCHANGED <<authvars, tvars, svars, cvars, kvars, pvars>>

\* defer wg.Done()
WorkerDone(g) ==
    /\ gpc[g] = "exit"
    /\ wg' = wg - 1
    /\ gpc' = [gpc EXCEPT ![g] = "done"]
    /\ UNCHANGED <<winput, wpc, wk, wmu, results, gres, glocal, greqs, wret>>
    /\ UNCHANGED <<authvars, tvars, svars, cvars, kvars, pvars>>

\* wg.Wait() returns when the counter is zero
Wait ==
    /\ wpc = "wait"
    /\ wg = 0
    /\ wpc' = "sort"
    /\ UNCHANGED <<winput, wk, wg, wmu, results, gpc, gres, glocal, greqs, wret>>
    /\ UNCHANGED <<authvars, tvars, svars, cvars, kvars, pvars>>

\* the outcomes of sort.Slice(results, less by RepoSlug): the orderings of
\* the elements that are ascending by slug (sort.Slice is not stable)
SortedBySlug(rs) ==
    LET n == Len(rs)
        perms == {f \in [1 .. n -> 1 .. n] : \A i, j \in 1 .. n : i # j => f[i] # f[j]}
    IN  {[i \in 1 .. n |-> rs[f[i]]] : f \in
            {f \in perms : \A i \in 1 .. n - 1 : rs[f[i]].RepoSlug <= rs[f[i + 1]].RepoSlug}}

\* sort.Slice(...); return results
SortAndReturn ==
    /\ wpc = "sort"
    /\ wret' \in SortedBySlug(results)
    /\ wpc' = "returned"
    /\ UNCHANGED <<winput, wk, wg, wmu, results, gpc, gres, glocal, greqs>>
    /\ UNCHANGED <<authvars, tvars, svars, cvars, kvars, pvars>>

InitCreator ==
    /\ AuthIdle
    /\ TokenRequestIdle
    /\ StoreIdle
    /\ ClientIdle
    /\ RunIdle
    /\ PKCEIdle
    /\ winput \in
          {[kind |-> "CreateBranches", repos |-> rs, destination |-> "main"] : rs \in RepoLists}
            \cup {[kind |-> "CreatePRs", repos |-> rs, destination |-> d] :
                     rs \in RepoLists, d \in {"", "   ", "develop"}}
    /\ wpc = IF winput.repos = <<>> THEN "wait" ELSE "loop"
    /\ WorkersIdle

NextCreator ==
    \/ Spawn
    \/ \E g \in Workers : \E outcome \in {"ok", "get failed", "create failed"} : Work(g, outcome)
    \/ \E g \in Workers : LockResults(g)
    \/ \E g \in Workers : AppendResult(g)
    \/ \E g \in Workers : WorkerDone(g)
    \/ Wait
    \/ SortAndReturn

SpecCreator == InitCreator /\ [][NextCreator]_vars

\* ------------------------------------------------------------------------
\* cmd: runCreate, runPR and resolveTargetRepos
\* ------------------------------------------------------------------------
\* config.Load: defaults.source_branch is "master" when not set
Load(c) ==
    [c EXCEPT !.SourceBranch = IF c.SourceBranch = "" THEN "master"
                                                     ELSE c.SourceBranch]

\* cfg.Groups
Groups == [backend |-> <<1, 2>>]

\* the slugs that contain every term of the pattern
PatternMatches(pattern) == IF pattern = "svc" THEN {1, 3} ELSE {}

\* matcher.Match(slugs, patterns).Matched: the slugs that match, in the
\* order of slugs
Match(slugs, pattern) == SelectSeq(slugs, LAMBDA s : s \in PatternMatches(pattern))

\* resolveTargetRepos asks the workspace for its repos unless a group is
\* named without --interactive and without --repos
ListsWorkspace(f) == f.interactive \/ f.repos # "" \/ f.group = ""

\* bold.Printf("Dry run: would create ...") and one line per repo
Plan(rs, source, dest) == [kind |-> "plan", repos |-> rs, source |-> source, dest |-> dest]

\* config.Load, cfg.Workspace == "", buildAuthApplier, bitbucket.NewClient
LoadConfig ==
    /\ rpc = "start"
    /\ IF ~cfg.parses
         THEN runErr' = "failed to load config" /\ rpc' = "done" /\ cfg' = cfg
       ELSE IF cfg.Workspace = ""
         THEN runErr' = "workspace not configured" /\ rpc' = "done" /\ cfg' = Load(cfg)
       ELSE IF ~cfg.credentials
         THEN runErr' = "credentials not configured" /\ rpc' = "done" /\ cfg' = Load(cfg)
       ELSE runErr' = runErr /\ rpc' = "resolve" /\ cfg' = Load(cfg)
    /\ UNCHANGED <<command, flags, targetRepos, apiCalls, output>>
    /\ UNCHANGED <<authvars, tvars, svars, cvars, wvars, pvars>>

\* resolveTargetRepos reached the repos rs or the error err
Resolved(rs, err) ==
    /\ targetRepos' = rs
    /\ runErr' = IF err # "" THEN err
                 ELSE IF Len(rs) = 0 THEN "no repositories selected" ELSE ""
    /\ rpc' = IF err # "" \/ Len(rs) = 0 THEN "done" ELSE "dispatch"

\* resolveTargetRepos(...) and the check len(repos) == 0; listing is what
\* ListRepositories answers, form what the multi-select returns
ResolveTargetRepos(listing, form) ==
    /\ rpc = "resolve"
    /\ apiCalls' = IF ListsWorkspace(flags)
                     THEN Append(apiCalls, APIRequest("ListRepositories", ""))
                     ELSE apiCalls
    /\ IF flags.interactive \/ (flags.repos = "" /\ flags.group = "")
         THEN \* selectInteractively
              IF listing.err
                THEN Resolved(<<>>, "failed to list repos")
              ELSE IF Len(listing.repos) = 0
                THEN Resolved(<<>>, "no repositories found in workspace")
              ELSE IF form.err
                THEN Resolved(<<>>, "selection cancelled")
              ELSE \* the chosen options, in the order of the options
                   Resolved(SelectSeq(listing.repos, LAMBDA s : s \in form.chosen), "")
       ELSE IF flags.repos # ""
         THEN \* resolveWithFuzzyMatch
              IF listing.err
                THEN Resolved(<<>>, "failed to list repos")
                ELSE Resolved(Match(listing.repos, flags.repos), "")
       ELSE \* cfg.GetReposForGroup
            IF flags.group \in DOMAIN Groups
              THEN Resolved(Groups[flags.group], "")
              ELSE Resolved(<<>>, "group not found in config")
    /\ UNCHANGED <<command, flags, cfg, output>>
    /\ UNCHANGED <<authvars, tvars, svars, cvars, wvars, pvars>>

\* if flagDryRun { ... return nil }, if prFlagDryRun { ... return nil }
IsDryRun_OnlyForGroups == flags.dryRun /\ ~ListsWorkspace(flags)

IsDryRun == flags.dryRun

\* sourceBranch: cfg.Defaults.SourceBranch, or --from when given
SourceBranch == IF flags.from # "" THEN flags.from ELSE cfg.SourceBranch

\* the arguments of CreateBranches or CreatePRs
CreatorInput ==
    IF command = "create"
      THEN [kind |-> "CreateBranches", repos |-> targetRepos, destination |-> SourceBranch]
      ELSE [kind |-> "CreatePRs", repos |-> targetRepos, destination |-> flags.destination]

\* the dry run: print the plan and return nil
DryRun ==
    /\ rpc = "dispatch"
    /\ IsDryRun
    /\ output' = IF command = "create"
                   THEN Plan(targetRepos, SourceBranch, "")
                   ELSE Plan(targetRepos, "",
                             IF flags.destination = ""
                               THEN "(each repo's default branch)"
                               ELSE flags.destination)
    /\ rpc' = "done"
    /\ UNCHANGED <<command, flags, cfg, targetRepos, apiCalls, runErr>>
    /\ UNCHANGED <<authvars, tvars, svars, cvars, wvars, pvars>>

RECURSIVE RequestsOfAll(_, _, _)
\* the requests of the goroutines of repos k .. Len(in.repos)
RequestsOfAll(in, outcomes, k) ==
    IF k > Len(in.repos)
      THEN <<>>
      ELSE RequestsOf(in, in.repos[k], outcomes[k]) \o RequestsOfAll(in, outcomes, k + 1)

\* bc.CreateBranches(...) or pc.CreatePRs(...), then PrintResults
Execute(outcomes) ==
    /\ rpc = "dispatch"
    /\ ~IsDryRun
    /\ \A k \in 1 .. Len(targetRepos) :
          outcomes[k] = "get failed" =>
              (command = "pr" /\ ResolvesViaAPI(flags.destination))
    /\ apiCalls' = apiCalls \o RequestsOfAll(CreatorInput, outcomes, 1)
    /\ output' = [kind |-> "results", repos |-> targetRepos,
                  source |-> IF command = "create" THEN SourceBranch ELSE "",
                  dest |-> IF command = "pr" THEN flags.destination ELSE ""]
    /\ rpc' = "done"
    /\ UNCHANGED <<command, flags, cfg, targetRepos, runErr>>
    /\ UNCHANGED <<authvars, tvars, svars, cvars, wvars, pvars>>

InitRun ==
    /\ AuthIdle
    /\ TokenRequestIdle
    /\ StoreIdle
    /\ ClientIdle
    /\ CreatorIdle
    /\ PKCEIdle
    /\ command \in {"create", "pr"}
    \* the flags of createCmd and prCmd; from is read by create only,
    \* destination by pr only
    /\ flags \in [repos : {"", "svc", "zzz"}, group : {"", "backend", "missing"},
                  interactive : BOOLEAN, dryRun : BOOLEAN,
                  from : {"", "develop"}, destination : {"", "release"}]
    /\ cfg \in {ConfigFile(FALSE, "ws", TRUE, ""), ConfigFile(TRUE, "", TRUE, ""),
                ConfigFile(TRUE, "ws", FALSE, ""), ConfigFile(TRUE, "ws", TRUE, ""),
                ConfigFile(TRUE, "ws", TRUE, "main")}
    /\ rpc = "start"
    /\ targetRepos = <<>>
    /\ apiCalls = <<>>
    /\ output = NoOutput
    /\ runErr = ""

NextRun ==
    \/ LoadConfig
    \* ListRepositories fails, or returns no repo or the repos of the
    \* workspace; the multi-select is cancelled or returns the chosen options
    \/ \E listing \in {[err |-> TRUE, repos |-> <<>>], [err |-> FALSE, repos |-> <<>>],
                        [err |-> FALSE, repos |-> <<1, 2, 3>>]},
          form \in {[err |-> TRUE, chosen |-> {}]}
                      \cup {[err |-> FALSE, chosen |-> c] : c \in SUBSET Slugs} :
          ResolveTargetRepos(listing, form)
    \/ DryRun
    \/ \E outcomes \in [1 .. Len(targetRepos) -> {"ok", "get failed", "create failed"}] :
          Execute(outcomes)

SpecRun == InitRun /\ [][NextRun]_vars

\* ------------------------------------------------------------------------
\* Login: the PKCE code verifier and code challenge
\* ------------------------------------------------------------------------
\* what rand.Read writes: a pattern of PatternLen bytes, repeated
RandomBytes ==
    {[i \in 1 .. VerifierBytes |-> pat[((i - 1) % PatternLen) + 1]] :
        pat \in [1 .. PatternLen -> {0, 62, 171, 251, 255}]}

Upper == <<"A", "B", "C", "D", "E", "F", "G", "H", "I", "J", "K", "L", "M",
           "N", "O", "P", "Q", "R", "S", "T", "U", "V", "W", "X", "Y", "Z">>

Lower == <<"a", "b", "c", "d", "e", "f", "g", "h", "i", "j", "k", "l", "m",
           "n", "o", "p", "q", "r", "s", "t", "u", "v", "w", "x", "y", "z">>

Digits == <<"0", "1", "2", "3", "4", "5", "6", "7", "8", "9">>

\* 2 to the power n, for the shifts of the encoding
Pow2(n) == IF n = 0 THEN 1 ELSE IF n = 2 THEN 4 ELSE IF n = 4 THEN 16
           ELSE IF n = 6 THEN 64 ELSE IF n = 8 THEN 256 ELSE 1024

\* the number of characters of the unpadded base64 of n bytes
UnpaddedLen(n) == (4 * n + 2) \div 3

\* the 6-bit groups of the bits of the bytes, most significant bit first;
\* the last group is filled with zero bits
Sextets(bs) ==
    [j \in 1 .. UnpaddedLen(Len(bs)) |->
        LET q == (6 * (j - 1)) \div 8
            r == (6 * (j - 1)) % 8
            \* the byte at 0-based position k, zero past the end
            ByteAt(k) == IF k < Len(bs) THEN bs[k + 1] ELSE 0
        IN  ((ByteAt(q) * 256 + ByteAt(q + 1)) \div Pow2(10 - r)) % 64]

\* base64.RawURLEncoding.EncodeToString: the URL-safe alphabet, no padding
RawURLEncode_Std(bs) ==
    LET sx == Sextets(bs)
    IN  [i \in 1 .. Len(sx) |-> (Upper \o Lower \o Digits \o <<"+", "/">>)[sx[i] + 1]]
        \o [i \in 1 .. ((3 - (Len(bs) % 3)) % 3) |-> "="]

RawURLEncode(bs) ==
    LET sx == Sextets(bs)
    IN  [i \in 1 .. Len(sx) |-> (Upper \o Lower \o Digits \o <<"-", "_">>)[sx[i] + 1]]

\* the byte of a character of the verifier: its ASCII code
Ord(ch) ==
    IF \E i \in 1 .. 26 : Upper[i] = ch THEN 64 + (CHOOSE i \in 1 .. 26 : Upper[i] = ch)
    ELSE IF \E i \in 1 .. 26 : Lower[i] = ch
      THEN 96 + (CHOOSE i \in 1 .. 26 : Lower[i] = ch)
    ELSE IF \E i \in 1 .. 10 : Digits[i] = ch
      THEN 47 + (CHOOSE i \in 1 .. 10 : Digits[i] = ch)
    ELSE IF ch = "-" THEN 45
    ELSE IF ch = "_" THEN 95
    ELSE IF ch = "+" THEN 43
    ELSE IF ch = "/" THEN 47
    ELSE 61

\* []byte(codeVerifier)
Bytes(str) == [i \in 1 .. Len(str) |-> Ord(str[i])]

RECURSIVE WeightedSum(_, _, _, _)
WeightedSum(msg, i, lo, hi) ==
    IF lo > hi THEN 0
    ELSE IF lo = hi THEN (msg[lo] * (i + lo)) % 256
    ELSE LET mid == (lo + hi) \div 2
         IN  (WeightedSum(msg, i, lo, mid) + WeightedSum(msg, i, mid + 1, hi)) % 256

\* sha256.Sum256: a digest of DigestBytes bytes that depends on the message
\* alone; the compression function is replaced by a weighted checksum
Sum256(msg) == [i \in 1 .. DigestBytes |-> WeightedSum(msg, i, 1, Len(msg))]

\* url.Values.Encode escapes each value with url.QueryEscape; of the
\* characters base64 produces it escapes "+", "/" and "="
QueryEscape(str) ==
    [i \in 1 .. Len(str) |->
        IF str[i] = "+" THEN "%2B" ELSE IF str[i] = "/" THEN "%2F"
        ELSE IF str[i] = "=" THEN "%3D" ELSE str[i]]

\* verifierBytes := make([]byte, 64); rand.Read(verifierBytes);
\* codeVerifier := base64.RawURLEncoding.EncodeToString(verifierBytes)
GenerateVerifier(random, ok) ==
    /\ ppc = "start"
    /\ IF ok
         THEN /\ verifierBytes' = random
              /\ pkceVerifier' = RawURLEncode(random)
              /\ ppc' = "verifier"
              /\ pkceErr' = pkceErr
         ELSE /\ pkceErr' = "failed to generate PKCE verifier"
              /\ ppc' = "done"
              /\ UNCHANGED <<verifierBytes, pkceVerifier>>
    /\ UNCHANGED <<codeChallenge, pkceURL>>
    /\ UNCHANGED <<authvars, tvars, svars, cvars, wvars, kvars>>

\* hash := sha256.Sum256([]byte(codeVerifier)); codeChallenge := base64url(hash);
\* authURL := authorizeURL + "?" + params.Encode()
BuildAuthorizeURL ==
    /\ ppc = "verifier"
    /\ codeChallenge' = RawURLEncode(Sum256(Bytes(pkceVerifier)))
    /\ pkceURL' = [code_challenge |-> QueryEscape(codeChallenge'),
                   code_challenge_method |-> "S256"]
    /\ ppc' = "done"
    /\ UNCHANGED <<verifierBytes, pkceVerifier, pkceErr>>
    /\ UNCHANGED <<authvars, tvars, svars, cvars, wvars, kvars>>

InitPKCE ==
    /\ AuthIdle
    /\ TokenRequestIdle
    /\ StoreIdle
    /\ ClientIdle
    /\ CreatorIdle
    /\ RunIdle
    /\ verifierBytes = <<>>
    /\ ppc = "start"
    /\ pkceVerifier = <<>>
    /\ codeChallenge = <<>>
    /\ pkceURL = NoAuthorizeURL
    /\ pkceErr = ""

NextPKCE ==
    \/ \E random \in RandomBytes, ok \in BOOLEAN : GenerateVerifier(random, ok)
    \/ BuildAuthorizeURL

SpecPKCE == InitPKCE /\ [][NextPKCE]_vars

\* ------------------------------------------------------------------------
\* Properties of GetToken (checked under Spec)
\* ------------------------------------------------------------------------
RECURSIVE SentUpTo(_)
SentUpTo(n) == IF n = 0 THEN 0 ELSE Len(sentReq[n]) + SentUpTo(n - 1)

\* number of refresh requests sent by all GetToken calls
TotalSent == SentUpTo(NCallers)

AllDone == \A i \in Callers : pc[i] = "done"

\* the call has decided to perform the refresh grant
DecidedRefresh(i) == pc[i] = "refresh" \/ Len(sentReq[i]) > 0

\* the token found in the store by the first call was already expired
StartedExpired ==
    \E i \in Callers :
        /\ loaded[i].state = "token"
        /\ loaded[i].tok.AccessToken = <<"access", 0>>
        /\ loaded[i].tok.ExpiresAt < Now0

\* every refresh succeeded and was saved, and every refreshed token is
\* still more than the refresh buffer away from its expiry
C1_Pre ==
    /\ AllDone
    /\ StartedExpired
    /\ \A i \in Callers : result[i].ok
    /\ \A i \in Callers : Len(sentReq[i]) > 0 => tok[i].ExpiresAt - now > RefreshBuffer

RefreshInFlight == {r \in inflight : r.grant_type = "refresh_token" /\ r.from \in Callers}

\* C2: at most one refresh request issued by GetToken is in flight.
C2_AtMostOneRefreshInFlight == Cardinality(RefreshInFlight) <= 1

C2_Witness ==
    /\ Cardinality(RefreshInFlight) = 1
    /\ \E i \in Callers : pc[i] = "await"
    /\ \E i \in Callers : pc[i] = "idle"

InCriticalSection(i) == pc[i] \in {"load", "check", "refresh", "await", "save", "saving", "unlock"}

\* C3: load, expiry check, refresh and persist of one GetToken call are never
\* interleaved with those of another; no call loads the store while another
\* call is between the start and the end of its save, so a call finds a
\* partially written store only if it was so before any call wrote it or
\* after a write that failed.
C3_NoInterleaving ==
    /\ \A i, j \in Callers :
          i # j => /\ ~(InCriticalSection(i) /\ InCriticalSection(j))
                   /\ ~(pc[i] = "load" /\ pc[j] = "saving")
    /\ \A i \in Callers :
          loaded[i].state = "partial" =>
              \/ \A j \in Callers : writes[j] = 0
              \/ \E j \in Callers : result[j].cause = "write"

C3_Witness ==
    \E i, j \in Callers :
        /\ i # j
        /\ pc[i] = "saving"
        /\ file = FilePartial
        /\ pc[j] = "idle"

\* C4: a failed refresh makes GetToken return RefreshFailed and no access
\* token, and the persisted token is what it was before the call.
C4_FailedRefreshKeepsStore ==
    \A i \in Callers :
        (pc[i] \in {"unlock", "done"} /\ result[i].err = "RefreshFailed") =>
            /\ ~result[i].ok
            /\ result[i].access = <<"", 0>>
            /\ writes[i] = 0
            /\ pc[i] = "unlock" => file = loaded[i]

C4_Witness ==
    \E i \in Callers :
        /\ pc[i] = "unlock"
        /\ result[i].err = "RefreshFailed"
        /\ result[i].cause = "decode"
        /\ file = loaded[i]

\* C5 as stated: the refresh grant is performed iff now >= ExpiresAt - 30s,
\* the boundary instant included.
C5_Original ==
    \A i \in Callers :
        checkedAt[i] >= 0 =>
            (DecidedRefresh(i) <=> checkedAt[i] >= loaded[i].tok.ExpiresAt - RefreshBuffer)

\* C5 (amended): the refresh grant is performed iff now > ExpiresAt - 30s;
\* at the boundary instant now = ExpiresAt - 30s no refresh is performed.
C5_RefreshIffStrictlyAfter ==
    \A i \in Callers :
        checkedAt[i] >= 0 =>
            (DecidedRefresh(i) <=> checkedAt[i] > loaded[i].tok.ExpiresAt - RefreshBuffer)

C5_Witness ==
    \E i \in Callers :
        /\ checkedAt[i] = loaded[i].tok.ExpiresAt - RefreshBuffer
        /\ pc[i] = "done"
        /\ ~DecidedRefresh(i)

\* the call has returned successfully from a store whose token had expired
C6_Pre(i) ==
    /\ pc[i] = "unlock"
    /\ result[i].ok
    /\ checkedAt[i] >= 0
    /\ checkedAt[i] > loaded[i].tok.ExpiresAt

\* C6: a GetToken call against an expired persisted token, with succeeding
\* refresh and writable store, sends exactly one refresh request carrying the
\* persisted refresh token, returns the access token of the response and
\* leaves the store holding the refreshed token.
C6_ExpiredTokenRefreshed ==
    \A i \in Callers :
        C6_Pre(i) =>
            /\ Len(sentReq[i]) = 1
            /\ sentReq[i][1].grant_type = "refresh_token"
            /\ sentReq[i][1].refresh_token = loaded[i].tok.RefreshToken
            /\ result[i].access = <<"access", issued>>
            /\ issued >= 1
            /\ file.state = "token"
            /\ file.tok.AccessToken = result[i].access
            /\ file.tok.RefreshToken = <<"refresh", issued>>
            /\ file.tok.ExpiresAt >= checkedAt[i]

C6_Witness == \E i \in Callers : C6_Pre(i) /\ file.tok.AccessToken = <<"access", 1>>

\* the call has checked a token that expires more than 30s later
C7_Pre(i) ==
    /\ checkedAt[i] >= 0
    /\ loaded[i].tok.ExpiresAt - checkedAt[i] > RefreshBuffer

\* C7: a GetToken call against a persisted token whose ExpiresAt is more
\* than 30 seconds in the future returns the persisted access token, sends no
\* token-endpoint request and does not write the token store.
C7_ValidTokenNoRefresh ==
    \A i \in Callers :
        C7_Pre(i) =>
            /\ pc[i] \in {"unlock", "done"}
            /\ result[i] = Ok(loaded[i].tok.AccessToken)
            /\ sentReq[i] = <<>>
            /\ writes[i] = 0
            /\ pc[i] = "unlock" => file = loaded[i]

C7_Witness ==
    \E i \in Callers :
        /\ C7_Pre(i)
        /\ pc[i] = "done"
        /\ loaded[i].tok.ExpiresAt = Now0 + 600

\* ------------------------------------------------------------------------
\* Properties of Login (checked under SpecLogin)
\* ------------------------------------------------------------------------
\* C8: the browser launch is attempted only after the callback listener has
\* bound the port and is accepting connections; never while the port is
\* still unbound or after the bind has failed.
C8_ListenerBeforeBrowser ==
    browser.launched => browser.listener = "serving"

\* signals the handlers of /callback have sent on codeCh or errCh
SignalsProduced == {k \in 1 .. Len(handlers) : handlers[k].st = "done"}

\* C9: over one Login invocation the callback listener produces at most one
\* completion signal in total, so a success signal and a failure signal are
\* never both pending.
C9_AtMostOneSignal ==
    /\ Cardinality(SignalsProduced) <= 1
    /\ ~(codeCh # <<>> /\ errCh # <<>>)

\* C10: on every path by which Login returns after it has started the
\* callback listener, the listener has been shut down and the port released
\* before Login returns.
C10_ListenerReleasedOnReturn ==
    lpc = "returned" =>
        /\ inShutdown
        /\ port # "bound"

C10_Witness ==
    /\ lpc = "returned"
    /\ lresult = "authorization timed out (5 minutes)"
    /\ spc = "exited"
    /\ Len(handlers) = 0
    /\ port = "free"
    /\ browser.listener = "serving"

\* C11: every Login invocation eventually returns, for any number of
\* requests that reach the callback endpoint.
C11_LoginReturns == <>(lpc = "returned")

TimeoutError == "authorization timed out (5 minutes)"

\* Login has returned without any request having reached /callback and
\* without the listener having failed
C12_Pre ==
    /\ lpc = "returned"
    /\ handlers = <<>>
    /\ serr = ""

\* C12: if no request reaches the callback endpoint within the 5-minute
\* window, Login fails with the timeout error, never calls the token
\* endpoint, leaves the token store unchanged, and the port is free when
\* Login returns.
C12_TimeoutWithoutRequest ==
    C12_Pre =>
        /\ lresult = TimeoutError
        /\ lsent = <<>>
        /\ inflight = {}
        /\ file = lfile0
        /\ port = "free"

C12_Witness == C12_Pre /\ browser.launched /\ browser.opened /\ file.state = "token"

\* Login has returned and the only request that reached /callback carried no
\* code (a denial), the listener not having failed
C13_Pre ==
    /\ lpc = "returned"
    /\ Len(handlers) = 1
    /\ handlers[1].kind # "code"
    /\ serr = ""

C14_SuccessIffPersisted ==
    lpc = "returned" =>
        /\ lresult # ""
        /\ lresult = "ok" <=>
               (authCode[1] = "code" /\ Len(lsent) = 1 /\ ltok # NoToken /\ file = FileOf(ltok))
        /\ lresult \notin {"ok", "save failed: open", "save failed: write"} => file = lfile0

C14_Witness ==
    /\ lpc = "returned"
    /\ lresult = "ok"
    /\ file = FileOf(ltok)
    /\ file # lfile0

\* C17: if the callback port is occupied when Login starts, Login fails with
\* the bind error, which no other failure produces, never calls the token
\* endpoint and leaves the token store unchanged.
C17_BindErrorDistinct ==
    lpc = "returned" =>
        /\ port = "other" =>
              /\ lresult = ServerError("bind")
              /\ lsent = <<>>
              /\ inflight = {}
              /\ file = lfile0
        /\ lresult = ServerError("bind") => port = "other" /\ serr = "bind"

C17_Witness ==
    /\ lpc = "returned"
    /\ port = "other"
    /\ lresult = ServerError("bind")
    /\ browser.launched

\* the call has run loadToken
Loaded(i) == pc[i] \notin {"idle", "load"}

\* C19: when the token file does not exist, load fails and GetToken fails
\* with NotLoggedIn, sends no request to the token endpoint and does not
\* create the file.
C19_AbsentFileNotLoggedIn ==
    \A i \in Callers :
        (Loaded(i) /\ loaded[i] = FileAbsent) =>
            /\ pc[i] \in {"unlock", "done"}
            /\ result[i] = Err("NotLoggedIn", "ENOENT")
            /\ sentReq[i] = <<>>
            /\ writes[i] = 0
            /\ file = FileAbsent

C19_Witness ==
    /\ AllDone
    /\ file = FileAbsent
    /\ \A i \in Callers : result[i] = Err("NotLoggedIn", "ENOENT")
    /\ inflight = {}

\* C20: load returns an error, and never a Token, whenever the file content
\* is not a valid Token: a call goes on with a loaded Token only if the file
\* held the token fields, and the error for unparseable content differs
\* from the error for a missing file.
C20_LoadRejectsInvalid ==
    \A i \in Callers :
        Loaded(i) =>
            /\ pc[i] = "check" => loaded[i].state = "token"
            /\ loaded[i].state = "partial" => result[i].cause = "parse"
            /\ loaded[i].state = "absent" => result[i].cause = "ENOENT"

\* ------------------------------------------------------------------------
\* Properties of GetToken under fair scheduling (checked under SpecFair)
\* ------------------------------------------------------------------------
\* C18: the token lock is a leaf lock: a GetToken call acquires it only at
\* its entry (never while it or another call holds it), holds it exactly
\* until it returns, on error paths too, and all concurrent calls complete.
C18_LeafLock ==
    /\ [](\A i \in Callers : pc[i] = "done" => tokenMu # i)
    /\ [][\A i \in Callers :
             (tokenMu' = i /\ tokenMu # i) => (pc[i] = "idle" /\ tokenMu = Unlocked)]_vars
    /\ <>[](AllDone /\ tokenMu = Unlocked)

C18_Witness ==
    /\ AllDone
    /\ tokenMu = Unlocked
    /\ \E i, j \in Callers :
          /\ result[i].err = "RefreshFailed"
          /\ result[j].err = "SaveFailed"

\* ------------------------------------------------------------------------
\* Properties of a single invocation (checked under SpecCmd)
\* ------------------------------------------------------------------------
\* the variables Login itself reads and writes
LoginState == <<lpc, lresult, lerr, lsent, ltok, authCode, file, inflight>>

\* C15: nothing is retried: one Login invocation sends at most one request
\* to the token endpoint and one GetToken invocation sends at most one,
\* whatever the outcome; once Login has returned (success or failure) it
\* takes no further step.
C15_NoRetry ==
    /\ [](Len(lsent) <= 1 /\ \A i \in Callers : Len(sentReq[i]) <= 1)
    /\ [][lpc = "returned" => UNCHANGED LoginState]_vars

C15_Witness ==
    /\ lpc = "returned"
    /\ Len(lsent) = 1
    /\ lresult \in {"transport", "status", "decode"}
    /\ inflight = {}

\* ------------------------------------------------------------------------
\* Properties of successive Login sessions (checked under SpecSessions)
\* ------------------------------------------------------------------------
\* C16: the code_verifier sent in the authorization-code exchange of a Login
\* session is the verifier generated in that session, whose challenge is in
\* that session's authorize URL; never the verifier of another session.
C16_VerifierOfSession ==
    /\ \A n \in 1 .. Len(lsent) :
          /\ lsent[n].grant_type = "authorization_code"
          /\ lsent[n].code_verifier = <<"verifier", session>>
          /\ authURL.code_challenge = <<"S256", lsent[n].code_verifier>>
    /\ \A r \in inflight :
          r.from = LoginId => r.code_verifier = <<"verifier", session>>

C16_Witness ==
    /\ session = 2
    /\ Len(lsent) = 1
    /\ lsent[1].code_verifier = <<"verifier", 2>>
    /\ lsent[1] \in inflight

\* ------------------------------------------------------------------------
\* Properties of doTokenRequest (checked under SpecTokenRequest)
\* ------------------------------------------------------------------------
TransportError == tres.kind = "error" /\ tres.msg = "token request failed"

TokenExchangeError == tres.kind = "error" /\ tres.msg = "token exchange failed"

ResponseDecodeError == tres.kind = "error" /\ tres.msg = "failed to parse token response"

Called == tres # NoTokenResult

\* C21 as stated: TokenExchangeError exactly when the status is not 2xx, and
\* a Token for every 2xx response with a parseable body.
C21_Original ==
    (Called /\ resp.transport = "ok") =>
        /\ TokenExchangeError <=> (resp.status < 200 \/ resp.status > 299)
        /\ (resp.status \in 200 .. 299 /\ resp.body.kind = "json") => tres.kind = "token"

\* C21 (amended): the response is classified by status = 200, not by status
\* class: TransportError on a connection-level failure; TokenExchangeError
\* with the status and the body's error and error_description exactly when
\* the status is not 200; ResponseDecodeError exactly when the status is 200
\* and the body does not parse; a Token exactly when the status is 200 and
\* the body parses.
C21_ClassifiedBy200 ==
    Called =>
        /\ TransportError <=> resp.transport = "failed"
        /\ TokenExchangeError <=> (resp.transport = "ok" /\ resp.status # 200)
        /\ TokenExchangeError =>
              /\ tres.status = resp.status
              /\ tres.error = (IF resp.body = ErrorBody THEN "invalid_client" ELSE "")
              /\ tres.description =
                    (IF resp.body = ErrorBody THEN "Client authentication failed" ELSE "")
        /\ ResponseDecodeError <=>
              (resp.transport = "ok" /\ resp.status = 200
                  /\ resp.body \in {GarbageBody, EmptyBody})
        /\ tres.kind = "token" <=>
              (resp.transport = "ok" /\ resp.status = 200
                  /\ resp.body \notin {GarbageBody, EmptyBody})

C21_Witness ==
    /\ resp.status = 201
    /\ resp.body = TokenBody(3600)
    /\ TokenExchangeError

C23_SaveLoadRoundTrip ==
    (sres = "ok" /\ lres # NoLoad) =>
        /\ lres.err = ""
        /\ lres.tok.AccessToken = saved.AccessToken
        /\ lres.tok.RefreshToken = saved.RefreshToken
        /\ lres.tok.ExpiresAt.sec = saved.ExpiresAt.sec
        /\ lres.tok.ExpiresAt.nsec = saved.ExpiresAt.nsec

C23_Witness ==
    /\ nsaves = 2
    /\ sres = "ok"
    /\ saved = Token(<<"x">>, <<>>, Time(Now0 + 3600, 5, TRUE))
    /\ lres = LoadOk(Token(<<"x">>, <<>>, Time(Now0 + 3600, 5, FALSE)))

\* C24: after every successful save the token file has permission 0600 and
\* its directory 0700, whether save created them or they existed before.
C24_PermissionsAfterSave ==
    sres = "ok" => (disk.filePerm = FilePerm /\ disk.dirPerm = DirPerm)

\* ------------------------------------------------------------------------
\* Properties of the Bitbucket API client (checked under SpecClient)
\* ------------------------------------------------------------------------
RECURSIVE PagesUpTo(_)
\* the values of pages 1 .. n, in page order
PagesUpTo(n) == IF n = 0 THEN <<>> ELSE PagesUpTo(n - 1) \o PageValues(n)

\* C25: every HTTP request the client sends follows a tokenProvider call of
\* its own, page requests of a listing included, and carries exactly the
\* token that call returned; when tokenProvider fails the call returns an
\* auth error and no request is sent for it.
C25_TokenBeforeEveryRequest ==
    /\ nreq <= nprov
    /\ cpc = "response" => (nreq = nprov /\ lastReq.bearer = ptok /\ ptok # <<"", 0>>)
    /\ cpc = "send" => nreq + 1 = nprov
    /\ (cpc = "done" /\ cres.err = "auth error") => nreq = nprov

C25_Witness ==
    /\ cop = "ListRepositories"
    /\ cpc = "response"
    /\ nreq = 3
    /\ nprov = 3
    /\ ptok = <<"access", 2>>
    /\ lastReq = BuildRequest("ListRepositories", 3, <<"access", 2>>)

\* C29: ListRepositories returns the values of every page reachable from
\* the first by next links, in page order, for any number of pages; when a
\* page request fails it returns an error and no list.
C29_AllPagesListed ==
    (cop = "ListRepositories" /\ cpc = "done") =>
        IF cres.status = "ok" THEN cres.repos = PagesUpTo(npages)
                              ELSE cres.repos = <<>>

\* ------------------------------------------------------------------------
\* Properties of CreateBranches and CreatePRs (checked under SpecCreator)
\* ------------------------------------------------------------------------
\* number of elements of the sequence whose slug is the given one
RECURSIVE CountSlug(_, _)
CountSlug(seq, slug) ==
    IF seq = <<>> THEN 0
    ELSE (IF Head(seq) = slug THEN 1 ELSE 0) + CountSlug(Tail(seq), slug)

SlugsOf(rs) == [i \in 1 .. Len(rs) |-> rs[i].RepoSlug]

\* C26: CreateBranches and CreatePRs return one Result for each element of
\* repos, failures as well as successes, in ascending order of slug, and
\* only after every per-repo goroutine has finished.
C26_OneResultPerRepoSorted ==
    wpc = "returned" =>
        /\ Len(wret) = Len(winput.repos)
        /\ \A slug \in Slugs :
              CountSlug(SlugsOf(wret), slug) = CountSlug(winput.repos, slug)
        /\ \A i \in 1 .. Len(wret) :
              \E g \in Workers : gpc[g] = "done" /\ wret[i] = gres[g]
        /\ \A i \in 1 .. Len(wret) - 1 : wret[i].RepoSlug <= wret[i + 1].RepoSlug
        /\ \A g \in Workers : gpc[g] \in {"new", "done"}
        /\ \A g \in 1 .. Len(winput.repos) : gpc[g] = "done"

C26_Witness ==
    /\ wpc = "returned"
    /\ winput.repos = <<3, 2, 1>>
    /\ SlugsOf(results) = <<2, 3, 1>>
    /\ SlugsOf(wret) = <<1, 2, 3>>
    /\ wret[1].Success /\ ~wret[2].Success /\ wret[3].Success

\* C27: CreatePRs with an empty or whitespace-only destination creates
\* every pull request with destination "master" and makes no GetRepository
\* request: each repo causes exactly a ListCommits and a CreatePullRequest.
C27_DefaultDestinationMaster ==
    (winput.kind = "CreatePRs" /\ winput.destination \in {"", "   "}) =>
        \A g \in Workers :
            gpc[g] \in {"lock", "write", "exit", "done"} =>
                greqs[g] = <<APIRequest("ListCommits", "master"),
                             APIRequest("CreatePullRequest", "master")>>

\* ------------------------------------------------------------------------
\* Properties of the create and pr commands (checked under SpecRun)
\* ------------------------------------------------------------------------
\* the operations that change a repository
Mutating == {"CreateBranch", "CreatePullRequest"}

\* C28: with --dry-run set, the create and pr commands never send a
\* create-branch or create-pull-request request, whatever the other flags:
\* the only request they make is the listing of the workspace that resolves
\* the target repos, and a run that ends without error has printed the plan
\* for exactly the resolved repos.
C28_DryRunSendsNoCreate ==
    flags.dryRun =>
        /\ \A i \in 1 .. Len(apiCalls) :
              /\ apiCalls[i].op \notin Mutating
              /\ apiCalls[i].op = "ListRepositories"
        /\ (rpc = "done" /\ runErr = "") =>
              (output.kind = "plan" /\ output.repos = targetRepos /\ Len(targetRepos) > 0)
        /\ output.kind # "results"

\* a dry run of pr --repos svc has listed the workspace and printed its plan
C28_Witness ==
    /\ command = "pr"
    /\ flags.dryRun
    /\ flags.repos = "svc"
    /\ ~flags.interactive
    /\ rpc = "done"
    /\ runErr = ""
    /\ apiCalls = <<APIRequest("ListRepositories", "")>>
    /\ output = Plan(<<1, 3>>, "", "(each repo's default branch)")

\* ------------------------------------------------------------------------
\* Properties of the PKCE parameters (checked under SpecPKCE)
\* ------------------------------------------------------------------------
\* RFC 7636: unreserved characters a base64url string is made of
URLSafeChars ==
    {Upper[i] : i \in 1 .. 26} \cup {Lower[i] : i \in 1 .. 26}
        \cup {Digits[i] : i \in 1 .. 10} \cup {"-", "_"}

\* RFC 4648, table 2: the value of a base64url character
SextetOf(ch) ==
    IF ch = "-" THEN 62
    ELSE IF ch = "_" THEN 63
    ELSE IF Ord(ch) >= 97 THEN Ord(ch) - 71
    ELSE IF Ord(ch) >= 65 THEN Ord(ch) - 65
    ELSE Ord(ch) + 4

\* the bytes an unpadded base64 string stands for: its characters' values
\* as one string of bits, cut into groups of 8
Base64Decode(str) ==
    [k \in 1 .. (6 * Len(str)) \div 8 |->
        LET q == (8 * (k - 1)) \div 6
            r == (8 * (k - 1)) % 6
        IN  ((SextetOf(str[q + 1]) * 64 + SextetOf(str[q + 2])) \div Pow2(4 - r)) % 256]

\* C30: every code verifier Login generates has a length within [43,128]
\* and consists only of unpadded URL-safe base64 characters, and the
\* code_challenge of the authorize URL is the unpadded URL-safe base64 of
\* the SHA-256 digest of the characters of that verifier.
C30_VerifierAndChallenge ==
    /\ pkceVerifier # <<>> =>
          /\ Len(pkceVerifier) >= 43
          /\ Len(pkceVerifier) <= 128
          /\ \A i \in 1 .. Len(pkceVerifier) : pkceVerifier[i] \in URLSafeChars
    /\ pkceURL # NoAuthorizeURL =>
          /\ pkceURL.code_challenge_method = "S256"
          /\ Len(pkceURL.code_challenge) = UnpaddedLen(DigestBytes)
          /\ \A i \in 1 .. Len(pkceURL.code_challenge) :
                pkceURL.code_challenge[i] \in URLSafeChars
          /\ Base64Decode(pkceURL.code_challenge) = Sum256(Bytes(pkceVerifier))

\* an authorize URL built for a verifier that holds both "-" and "_"
C30_Witness ==
    /\ ppc = "done"
    /\ pkceErr = ""
    /\ Len(pkceVerifier) = 86
    /\ \E i, j \in 1 .. Len(pkceVerifier) : pkceVerifier[i] = "-" /\ pkceVerifier[j] = "_"
    /\ Len(pkceURL.code_challenge) = 43

\* ------------------------------------------------------------------------
\* Properties of GetToken on a damaged store (checked under Spec)
\* ------------------------------------------------------------------------
\* C31: GetToken reports NotLoggedIn only when the token file is absent; when
\* the file exists but does not parse, the call reports CorruptTokenStore
\* rather than NotLoggedIn, sends no request to the token endpoint and does
\* not write the file.
C31_CorruptNotRelabelled ==
    \A i \in Callers :
        pc[i] = "done" =>
            /\ result[i].err = "NotLoggedIn" => loaded[i].state = "absent"
            /\ loaded[i].state = "partial" =>
                  /\ result[i].err = "CorruptTokenStore"
                  /\ sentReq[i] = <<>>
                  /\ writes[i] = 0

\* call j loaded the token that call i obtained by a refresh and saved, and
\* checked its expiry at the time of i's own check: no time has elapsed
\* between i's refresh and j's call
CalledRightAfter(i, j) ==
    /\ i # j
    /\ pc[i] = "done"
    /\ result[i].ok
    /\ Len(sentReq[i]) > 0
    /\ pc[j] \notin {"idle", "load", "check"}
    /\ loaded[j] = FileOf(tok[i])
    /\ checkedAt[j] = checkedAt[i]

\* C32: a GetToken call made right after a call that refreshed and saved the
\* token, with no time elapsed, performs no refresh, whatever expires_in the
\* token endpoint reported (0, which is also what a missing field decodes
\* to, and values of at most 30 seconds included).
C32_NoRefreshRightAfterRefresh ==
    \A i, j \in Callers :
        CalledRightAfter(i, j) => (pc[j] # "refresh" /\ sentReq[j] = <<>>)

\* ------------------------------------------------------------------------
\* Properties of the tokens GetToken persists (checked under SpecDecoded)
\* ------------------------------------------------------------------------
\* C33: every token GetToken persists has a non-empty AccessToken and a
\* non-empty RefreshToken, and every access token it returns without error
\* is non-empty, whatever status-200 body the token endpoint answers with,
\* a body without access_token or refresh_token included.
C33_PersistedTokenNonEmpty ==
    /\ file.state = "token" =>
          (file.tok.AccessToken # <<"", 0>> /\ file.tok.RefreshToken # <<"", 0>>)
    /\ \A i \in Callers : result[i].ok => result[i].access # <<"", 0>>

\* ------------------------------------------------------------------------
\* Properties of Login running with GetToken (checked under SpecConcurrent)
\* ------------------------------------------------------------------------
\* C34: the token store is written only under the token lock: between the
\* load of a GetToken call and that call's save nobody else writes the
\* file, so the call never saves a refresh of a token that Login has
\* replaced in the meantime.
C34_NoSaveBetweenLoadAndSave ==
    \A i \in Callers :
        pc[i] \in {"check", "refresh", "await", "save"} => file = loaded[i]

\* ------------------------------------------------------------------------
\* Properties of GetToken calls whose refreshes all fail (checked under Spec)
\* ------------------------------------------------------------------------
\* the store held an expired token at the start and no token-endpoint
\* request has succeeded
AllRefreshesFailed == StartedExpired /\ issued = 0

\* C35: when N GetToken calls run against an expired token and every
\* refresh fails, each call sends its own refresh request with the stored
\* refresh token, N requests in total and never two at a time, each call
\* returns RefreshFailed, and the store is left as it was: a failed refresh
\* is not remembered for the later calls.
C35_EachCallRefreshesAndFails ==
    AllRefreshesFailed =>
        /\ Cardinality(RefreshInFlight) <= 1
        /\ \A i \in Callers :
              pc[i] = "done" =>
                  /\ loaded[i] = FileOf(InitToken(Now0 - 300))
                  /\ sentReq[i] = <<RefreshRequest(i, InitToken(Now0 - 300))>>
                  /\ result[i] = Err("RefreshFailed", result[i].cause)
                  /\ file = loaded[i]
        /\ AllDone => TotalSent = NCallers

C35_Witness ==
    /\ AllRefreshesFailed
    /\ AllDone
    /\ NCallers >= 2
    /\ TotalSent = NCallers
    /\ \A i \in Callers : result[i].err = "RefreshFailed"
    /\ file = FileOf(InitToken(Now0 - 300))
====
